---- MODULE Spec2Model ----
(***************************************************************************)
(* Replay session manager and streaming loop of the F1 replay backend.     *)
(*                                                                         *)
(*   backend/app/api/sessions.py            create_session                 *)
(*   backend/app/services/replay_service.py F1ReplaySession                *)
(*   backend/app/websocket.py               handle_replay_websocket        *)
(*   shared/telemetry/f1_data.py            get_race_telemetry,            *)
(*                                          get_quali_telemetry            *)
(*                                                                         *)
(* Python objects are modelled as records in the sequence `sessions`; an   *)
(* object is named by its index.  None is the empty sequence << >> and a   *)
(* present value v is << v >>.  The playhead (a float number of frames) is *)
(* kept as an exact integer number of 1/Scale frames.                      *)
(***************************************************************************)
EXTENDS Integers, Sequences, FiniteSets, TLC

VARIABLES
    sessions,         \* heap of F1ReplaySession objects (fields of __init__)
    loader,           \* per object: position and locals of its load_data task
    scheduled,        \* per object: emits scheduled on the loop by the thread
    active_sessions,  \* sessions.py: session_id -> object
    cache,            \* computed_data/: cache key -> pickled artifact
    response,         \* what the last create_session call returned
    ws_pc,            \* position of handle_replay_websocket
    ws_session,       \* websocket.py:22  the session object it captured
    ws_elapsed,       \* websocket.py:28  elapsed, in sleeps of 0.5 s
    frame_index,      \* websocket.py:44
    playback_speed,   \* websocket.py:45
    is_playing,       \* websocket.py:46
    last_frame_sent,  \* websocket.py:47
    ws_recv,          \* outcome of this iteration's receive_json (data)
    ws_errors,        \* error messages sent to the client, in order
    ws_got_frame,     \* a frame was sent to the client
    ws_sent,          \* << i >> when this iteration's tick sent frame i
    send_error,       \* websocket.py:92, :98  the exception that ended the
                      \* tick, by its kind
    seek_pending,     \* << f >> after a seek until the next frame is sent
    run_last,         \* last index sent in the current PLAYING interval
    run_nonneg,       \* no negative speed was in effect in that interval
    win_ticks,        \* ticks of the measured playing window
    win_first,        \* index emitted at the start of the measured window
    fr_i,             \* f1_data.py:985   i, the index of the next frame
    driver_zero_speed_time,  \* f1_data.py:941, in frames of zero speed
    driver_retired,   \* f1_data.py:942
    previous_order,   \* f1_data.py:375   PositionSmoothing.previous_order
    last_change_time, \* f1_data.py:376   in ms, 0 where the dict has no key
    lap_boundaries,   \* f1_data.py:953   code -> lap -> official position
    frame,            \* f1_data.py:1124  the drivers of the last frame built
    track_status,     \* f1_data.py:1094  current_track_status of that frame
    candidate,        \* f1_data.py:1104  sorted_codes of a frame under "4"
    rank_changed_at,  \* per code: time of the last frame where its rank moved
    alt_run,          \* frames in a row under "4" whose candidate flipped
    alt_steady,       \* the last of them that all carry one rank order
    prep_pc,          \* position in the set-up of get_race_telemetry
    global_t_min,     \* f1_data.py:714  in ms
    global_t_max,     \* f1_data.py:715  in ms
    race_start_time_absolute,  \* f1_data.py:832  in ms, or None
    dist,             \* f1_data.py:911  d["dist"] of one driver, NaN as None
    timeline_len,     \* f1_data.py:874  num_frames = len(timeline)
    race_start_idx,   \* f1_data.py:901
    race_progress,    \* f1_data.py:936  race_progress_all of that driver
    upstream,         \* the artifact a computation yields from what FastF1
                      \* holds for the event now
    computed,         \* cache key -> the dict the last computation pickled to
                      \* the file, while the file is as pickle.dump left it
    call,             \* the arguments of a call of one of the functions
                      \* that order the drivers of a frame
    returned          \* what that call returned, << >> until it returns

vars == << sessions, loader, scheduled, active_sessions, cache, response,
           ws_pc, ws_session, ws_elapsed, frame_index, playback_speed,
           is_playing, last_frame_sent, ws_recv, ws_errors, ws_got_frame, ws_sent,
           send_error, seek_pending, run_last, run_nonneg, win_ticks, win_first,
           fr_i, driver_zero_speed_time, driver_retired, previous_order,
           last_change_time, lap_boundaries, frame, track_status, candidate,
           rank_changed_at, alt_run, alt_steady,
           prep_pc, global_t_min, global_t_max, race_start_time_absolute,
           dist, timeline_len, race_start_idx, race_progress, upstream,
           computed, call, returned >>

sessVars == << sessions, loader, scheduled, active_sessions, cache, response >>

loopVars == << frame_index, playback_speed, is_playing, last_frame_sent >>

ghostVars == << seek_pending, run_last, run_nonneg, win_ticks, win_first >>

wsVars == << ws_pc, ws_session, ws_elapsed, frame_index, playback_speed,
             is_playing, last_frame_sent, ws_recv, ws_errors, ws_got_frame, ws_sent,
             send_error, seek_pending, run_last, run_nonneg, win_ticks, win_first >>

frameVars == << fr_i, driver_zero_speed_time, driver_retired, previous_order,
                last_change_time, lap_boundaries, frame, track_status,
                candidate, rank_changed_at, alt_run, alt_steady >>

prepVars == << prep_pc, global_t_min, global_t_max,
              race_start_time_absolute, dist, timeline_len, race_start_idx,
              race_progress >>

callVars == << call, returned >>

\* the state of telemetry generation (f1_data.py)
genVars == << frameVars, prepVars, callVars, upstream, computed >>

\* no timeline is being set up
PrepIdle ==
    /\ prep_pc = "idle"
    /\ global_t_min = 0
    /\ global_t_max = 0
    /\ race_start_time_absolute = << >>
    /\ dist = << >>
    /\ timeline_len = 0
    /\ race_start_idx = 0
    /\ race_progress = << >>

\* no frame is being built
FrameIdle ==
    /\ fr_i = 0
    /\ driver_zero_speed_time = << >>
    /\ driver_retired = << >>
    /\ previous_order = << >>
    /\ last_change_time = << >>
    /\ lap_boundaries = << >>
    /\ frame = << >>
    /\ track_status = "1"
    /\ candidate = << >>
    /\ rank_changed_at = << >>
    /\ alt_run = 0
    /\ alt_steady = 0

\* no function is being called on its own
CallIdle == call = << >> /\ returned = << >>

\* no telemetry is being generated
GenIdle == FrameIdle /\ PrepIdle /\ CallIdle

----------------------------------------------------------------------------
(* Bounds of the model                                                     *)

MaxSessions == 2

MaxDrivers == 2

NFrames == 3

MaxRewind == 2

LoadTimeoutPolls == 2

RateWindow == 600

RateFrames == 800

MaxCallbacks == 2

Precision == 3

QuantumBits == 2

PlaybackFrames == 6

(* Program constants                                                       *)

FPS == 25

TickHz == 60

PreSerializeLimit == 50000

ProgressEvery == 250

\* additions of DT = 1 / FPS to 0.0 until the double reaches
\* RETIREMENT_THRESHOLD = 10: 250 of them make 9.999999999999963
ZeroFramesToRetire == 251

\* frames the loop builds after the state it resumes from
FrameSteps == 2

\* frames built while the candidate order flickers
FlickerFrames == 8

----------------------------------------------------------------------------
(* Input domains                                                           *)

Years == {2024}

Rounds == {1}

Kinds == {"R", "Q"}

None == << >>

Some(v) == << v >>

NoValidMsg == "No valid telemetry data found for any driver"

ZeroDivMsg == "integer division or modulo by zero"

OtherMsgs == {"", "upstream failure"}

Laps == {2}

Speeds == {-1, 0, 1, 3}

\* the dict get_race_telemetry builds (f1_data.py:1210-1226) from what
\* FastF1 holds for the event, before and after a revision of its data;
\* frames is the number of frames
FirstUpstream ==
    [ frames |-> NFrames,
      driver_colors |-> << "#3671C6" >>,
      track_statuses |-> << [ status |-> "1", start_time |-> 0 ] >>,
      total_laps |-> 2,
      race_start_time |-> Some(0) ]

RevisedUpstream ==
    [ frames |-> NFrames - 1,
      driver_colors |-> << "#FF8000" >>,
      track_statuses |-> << >>,
      total_laps |-> 1,
      race_start_time |-> None ]

----------------------------------------------------------------------------
(* Python values                                                           *)

\* bool(x) of an optional string: None and "" are both falsy
Truthy(opt) == opt # None /\ opt[1] # ""

Digit(d) ==
    CASE d = 0 -> "0" [] d = 1 -> "1" [] d = 2 -> "2" [] d = 3 -> "3"
      [] d = 4 -> "4" [] d = 5 -> "5" [] d = 6 -> "6" [] d = 7 -> "7"
      [] d = 8 -> "8" [] OTHER -> "9"

RECURSIVE Str(_)
\* str(n) of a non-negative int, as the f-string formats it
Str(n) == IF n < 10 THEN Digit(n) ELSE Str(n \div 10) \o Digit(n % 10)

\* sessions.py:21  f"{year}_{round_num}_{session_type}"
SessionId(year, round_num, session_type) ==
    Str(year) \o "_" \o Str(round_num) \o "_" \o session_type

SessionIds == { SessionId(y, r, k) : y \in Years, r \in Rounds, k \in Kinds }

\* f1_data.py:592 and :1544  cache_suffix
CacheSuffix(session_type) ==
    CASE session_type = "Q" -> "quali"
      [] session_type = "SQ" -> "sprintquali"
      [] session_type = "R" -> "r"
      [] OTHER -> "s"

\* f1_data.py:591-596 and :1543-1548  cache_file; str(session) names the
\* event of (year, round)
CacheFile(year, round_num, session_type) ==
    Str(year) \o "_" \o Str(round_num) \o "_" \o CacheSuffix(session_type)
        \o "_telemetry.pkl"

CacheFiles == { CacheFile(y, r, k) : y \in Years, r \in Rounds, k \in Kinds }

----------------------------------------------------------------------------
(* F1ReplaySession                                                         *)

\* replay_service.py:32-56  __init__
NewSession(year, round_num, session_type, refresh) ==
    [ year |-> year, round_num |-> round_num, session_type |-> session_type,
      refresh |-> refresh, frames |-> None, total_laps |-> 0,
      is_loaded |-> FALSE, load_error |-> None, msgpack_frames |-> None,
      state |-> "init", progress |-> 0 ]

\* a load_data task that has been added to the background tasks
NewLoader ==
    [ pc |-> "queued", calls |-> 0, exc |-> None, data |-> None,
      drivers |-> None, cache_hit |-> FALSE ]

\* replay_service.py:396-417  get_metadata (identity, frame and lap totals,
\* error; the colour, number, team and geometry maps are not modelled)
get_metadata(s) ==
    [ year |-> s.year, round |-> s.round_num, session_type |-> s.session_type,
      total_frames |-> IF s.frames # None /\ s.frames[1] > 0
                       THEN s.frames[1] ELSE 0,
      total_laps |-> s.total_laps,
      error |-> s.load_error ]

\* len(session.frames)
NumFrames(s) == s.frames[1]

Objs == 1 .. Len(sessions)

SetField(o, f, v) == [sessions EXCEPT ![o][f] = v]

\* the event loop is not inside the synchronous load_session call of a load
\* (replay_service.py:121): nothing else runs on the loop until it returns
LoopIdle == \A o \in Objs : loader[o].pc # "started"

\* an emit that tests the progress for truth and so skips a progress of 0
emit_progress_m(s, state, progress) ==
    [s EXCEPT !.state = state,
              !.progress = IF progress # 0 THEN progress ELSE @]

\* replay_service.py:67-85  emit_progress: every call site passes a progress
\* and a message; no progress callback is ever registered
\* (register_progress_callback has no caller), so the loop over the
\* callbacks awaits nothing and the call does not yield to the event loop
emit_progress(s, state, progress) ==
    [s EXCEPT !.state = state, !.progress = progress]

\* replay_service.py:204 and :211  self.is_loaded = True, the last statement
\* of load_data on both paths
MarkLoaded(o, s) ==
    /\ sessions' = [sessions EXCEPT ![o] = [s EXCEPT !.is_loaded = TRUE]]
    /\ loader' = [loader EXCEPT ![o] = [NewLoader EXCEPT !.pc = "done"]]

\* replay_service.py:206-211  except Exception as e
HandleException(o, s, msg) ==
    MarkLoaded(o, emit_progress([s EXCEPT !.load_error = Some(msg)], "error", 0))

\* replay_service.py:116-119  load_data starts: the first emit
LoadStart(o) ==
    /\ o \in Objs
    /\ LoopIdle
    /\ loader[o].pc = "queued"
    /\ sessions' = [sessions EXCEPT
                      ![o] = emit_progress(sessions[o], "loading", 0)]
    /\ loader' = [loader EXCEPT ![o].pc = "started"]
    /\ UNCHANGED << scheduled, active_sessions, cache, response >>
    /\ UNCHANGED wsVars
    /\ UNCHANGED genVars

\* replay_service.py:121-128  load_session, which may raise, the 10 % emit
\* and the hand-over of the telemetry call to the executor
LoadSession(o) ==
    /\ o \in Objs
    /\ loader[o].pc = "started"
    /\ \/ \E msg \in OtherMsgs : HandleException(o, sessions[o], msg)
       \/ /\ sessions' = [sessions EXCEPT
                             ![o] = emit_progress(sessions[o], "loading", 10)]
          /\ loader' = [loader EXCEPT ![o].pc = "fetch"]
    /\ UNCHANGED << scheduled, active_sessions, cache, response >>
    /\ UNCHANGED wsVars
    /\ UNCHANGED genVars

\* replay_service.py:95-114  progress_callback: the 0-100 % of the frame
\* generation scaled to 10-60 % overall
ProgressOf(pct) == 10 + (pct * 50) \div 100

\* f1_data.py:986-987  progress_pct of frame i of num_frames
FramePct(i, num_frames) == (100 * i) \div num_frames

\* f1_data.py:600-610 and :1551-1561  the cached artifact is returned when
\* there is one and refresh is off
CacheHit(s) ==
    ~s.refresh /\ cache[CacheFile(s.year, s.round_num, s.session_type)] # None

\* f1_data.py:985-993  the frame loop of get_race_telemetry, run by the
\* executor thread after a cache miss, reaches frame calls * ProgressEvery
\* and calls progress_callback (replay_service.py:95-114)
ThreadProgress(o) ==
    /\ o \in Objs
    /\ loader[o].pc = "fetch"
    /\ sessions[o].session_type \notin {"Q", "SQ"}
    /\ loader[o].calls > 0 \/ ~CacheHit(sessions[o])
    /\ loader[o].calls * ProgressEvery < upstream.frames
    /\ LET p == ProgressOf(FramePct(loader[o].calls * ProgressEvery,
                                    upstream.frames))
       IN  /\ sessions' = SetField(o, "progress", p)
           /\ scheduled' = [scheduled EXCEPT ![o] = Append(scheduled[o], p)]
    /\ loader' = [loader EXCEPT ![o].calls = loader[o].calls + 1]
    /\ UNCHANGED << active_sessions, cache, response >>
    /\ UNCHANGED wsVars
    /\ UNCHANGED genVars

\* the event loop runs an emit_progress(LOADING, p, msg) that the thread
\* scheduled with run_coroutine_threadsafe (replay_service.py:109-112)
RunScheduledEmit(o) ==
    /\ o \in Objs
    /\ LoopIdle
    /\ scheduled[o] # << >>
    /\ sessions' = [sessions EXCEPT
                      ![o] = emit_progress(sessions[o], "loading",
                                           Head(scheduled[o]))]
    /\ scheduled' = [scheduled EXCEPT ![o] = Tail(scheduled[o])]
    /\ UNCHANGED << loader, active_sessions, cache, response >>
    /\ UNCHANGED wsVars
    /\ UNCHANGED genVars

Result(exc, data, drivers, hit) ==
    [ exc |-> exc, data |-> data, drivers |-> drivers, cache_hit |-> hit ]

\* f1_data.py:691-696 and :1576-1578  num_processes and chunksize: with an
\* empty driver list the divisor num_processes * 4 is 0
ChunkSizeRaises(num_drivers) == num_drivers = 0

\* f1_data.py:686-983  get_race_telemetry from the cache miss to the frame
\* loop, for num_drivers drivers of which num_valid yield a result
\* (f1_data.py:703-704 skips the others): the exceptions that end it there
RaceSetupRaises(num_drivers, num_valid) ==
    IF ChunkSizeRaises(num_drivers)
    THEN { Result(Some(ZeroDivMsg), None, Some(num_drivers), FALSE) }
    ELSE IF num_valid = 0
    THEN { Result(Some(NoValidMsg), None, Some(num_drivers), FALSE) }
    ELSE { Result(Some(msg), None, Some(num_drivers), FALSE) : msg \in OtherMsgs }

\* f1_data.py:985-1226  the frame loop after calls progress reports: an
\* exception, or past the last report the frames
RaceFrames(num_drivers, calls) ==
    { Result(Some(msg), None, Some(num_drivers), FALSE) : msg \in OtherMsgs }
    \cup
    IF calls * ProgressEvery >= upstream.frames
    THEN { Result(None, Some(upstream), Some(num_drivers), FALSE) }
    ELSE { }

\* f1_data.py:1565-1621  the qualifying computation: segments, no race frames
ComputeQuali(num_drivers) ==
    IF ChunkSizeRaises(num_drivers)
    THEN { Result(Some(ZeroDivMsg), None, Some(num_drivers), FALSE) }
    ELSE { Result(None, Some([ results |-> num_drivers,
                               driver_colors |-> upstream.driver_colors,
                               segments |-> << >>,
                               max_speed |-> 0, min_speed |-> 0 ]),
                  Some(num_drivers), FALSE) }
         \cup
         { Result(Some(msg), None, Some(num_drivers), FALSE) : msg \in OtherMsgs }

\* the keys of the dicts get_race_telemetry (f1_data.py:1210-1216) and
\* get_quali_telemetry (f1_data.py:1609-1615) pickle, in the order written
Keys == << "frames", "results", "driver_colors", "track_statuses", "segments",
           "total_laps", "max_speed", "race_start_time", "min_speed" >>

InDict(d, key) == key \in DOMAIN d

\* a pickle that loses the race start time
Pickle_m(d) ==
    LET keys == SelectSeq(Keys, LAMBDA key : InDict(d, key))
    IN  [ k \in 1 .. Len(keys) |->
            << keys[k],
               IF keys[k] = "race_start_time" THEN None ELSE d[keys[k]] >> ]
        \o << << "." >> >>

\* pickle.dump of the dict: its items, then the STOP opcode
Pickle(d) ==
    LET keys == SelectSeq(Keys, LAMBDA key : InDict(d, key))
    IN  [ k \in 1 .. Len(keys) |-> << keys[k], d[keys[k]] >> ]
        \o << << "." >> >>

\* the stream ends with STOP
Intact(b) == b # << >> /\ b[Len(b)] = << "." >>

\* pickle.load of an intact stream: the dict of its items
Unpickle(b) ==
    [ key \in { b[k][1] : k \in 1 .. Len(b) - 1 } |->
        b[CHOOSE k \in 1 .. Len(b) - 1 : b[k][1] = key][2] ]

\* str(e) of the EOFError or UnpicklingError pickle.load raises otherwise
PickleError(b) ==
    IF b = << >> THEN "Ran out of input" ELSE "pickle data was truncated"

\* f1_data.py:601-608 and :1552-1559  the file is there and refresh is off:
\* pickle.load returns the dict or raises, past the except FileNotFoundError
Cached(s) ==
    LET b == cache[CacheFile(s.year, s.round_num, s.session_type)][1]
    IN  IF Intact(b)
        THEN { Result(None, Some(Unpickle(b)), None, TRUE) }
        ELSE { Result(Some(PickleError(b)), None, None, FALSE) }

\* f1_data.py:589  get_race_telemetry, for a thread that has made calls
\* progress reports
get_race_telemetry(s, calls) ==
    IF calls > 0
    THEN UNION { RaceFrames(nd, calls) : nd \in 1 .. MaxDrivers }
    ELSE IF CacheHit(s)
    THEN Cached(s)
    ELSE UNION { UNION { RaceSetupRaises(nd, nv) : nv \in 0 .. nd }
                 : nd \in 0 .. MaxDrivers }

\* f1_data.py:1542  get_quali_telemetry
get_quali_telemetry(s) ==
    IF CacheHit(s)
    THEN Cached(s)
    ELSE UNION { ComputeQuali(nd) : nd \in 0 .. MaxDrivers }

\* replay_service.py:130-143  the call the executor thread runs
Telemetry(s, calls) ==
    IF s.session_type \in {"Q", "SQ"}
    THEN get_quali_telemetry(s)
    ELSE get_race_telemetry(s, calls)

\* the executor thread returns from (or raises in) the telemetry call; a
\* computed result has been pickled to the cache file (f1_data.py:1209-1216,
\* :1617-1618) and a cache hit has called progress_callback(100.0)
ThreadReturn(o) ==
    /\ o \in Objs
    /\ loader[o].pc = "fetch"
    /\ \E r \in Telemetry(sessions[o], loader[o].calls) :
         /\ loader' = [loader EXCEPT
                         ![o] = [ pc |-> "fetched", calls |-> loader[o].calls,
                                  exc |-> r.exc, data |-> r.data,
                                  drivers |-> r.drivers,
                                  cache_hit |-> r.cache_hit ]]
         /\ cache' = IF r.cache_hit \/ r.data = None
                     THEN cache
                     ELSE [cache EXCEPT
                             ![CacheFile(sessions[o].year,
                                         sessions[o].round_num,
                                         sessions[o].session_type)] =
                                 Some(Pickle(r.data[1]))]
         /\ computed' = IF r.cache_hit \/ r.data = None
                        THEN computed
                        ELSE [computed EXCEPT
                                ![CacheFile(sessions[o].year,
                                            sessions[o].round_num,
                                            sessions[o].session_type)] =
                                    r.data]
         /\ IF r.cache_hit
            THEN /\ sessions' = SetField(o, "progress", ProgressOf(100))
                 /\ scheduled' = [scheduled EXCEPT
                                    ![o] = Append(scheduled[o], ProgressOf(100))]
            ELSE UNCHANGED << sessions, scheduled >>
    /\ UNCHANGED << active_sessions, response >>
    /\ UNCHANGED wsVars
    /\ UNCHANGED << frameVars, prepVars, callVars, upstream >>

\* a loop that may resume load_data ahead of the emits the thread scheduled
LoopResumes_m(o) == TRUE

\* the loop resumes load_data after run_in_executor only once the callbacks
\* the thread queued before returning have run (the loop's ready queue is
\* first in, first out)
LoopResumes(o) == scheduled[o] = << >>

\* replay_service.py:135-162  load_data from the executor's result to the
\* sleep(0) before the track geometry
LoadAfterFetch(o) ==
    /\ o \in Objs
    /\ LoopIdle
    /\ loader[o].pc = "fetched"
    /\ LoopResumes(o)
    /\ IF loader[o].exc # None
       THEN HandleException(o, sessions[o], loader[o].exc[1])
       ELSE LET d  == loader[o].data[1]
                s1 == IF sessions[o].session_type \in {"Q", "SQ"}
                      THEN [sessions[o] EXCEPT !.frames = Some(0)]
                      ELSE [sessions[o] EXCEPT !.frames = Some(d.frames),
                                               !.total_laps = d.total_laps]
                s2 == emit_progress(emit_progress(s1, "loading", 60),
                                    "loading", 75)
            IN  /\ sessions' = [sessions EXCEPT ![o] = s2]
                /\ loader' = [loader EXCEPT
                                ![o] = [NewLoader EXCEPT !.pc = "geometry"]]
    /\ UNCHANGED << scheduled, active_sessions, cache, response >>
    /\ UNCHANGED wsVars
    /\ UNCHANGED genVars

\* replay_service.py:213-240  _pre_serialize_frames: the msgpack cache
PreSerialized(num_frames) ==
    IF num_frames > PreSerializeLimit THEN None ELSE Some(num_frames)

\* replay_service.py:164-196  track geometry (its exceptions are swallowed),
\* the 90 % emit and the pre-serialization, which may raise
LoadGeometry(o) ==
    /\ o \in Objs
    /\ LoopIdle
    /\ loader[o].pc = "geometry"
    /\ LET s1 == emit_progress(sessions[o], "loading", 90)
       IN  \/ /\ NumFrames(s1) > 0
              /\ \E msg \in OtherMsgs : HandleException(o, s1, msg)
           \/ /\ sessions' = [sessions EXCEPT
                                ![o] = [s1 EXCEPT !.msgpack_frames =
                                          PreSerialized(NumFrames(s1))]]
              /\ loader' = [loader EXCEPT ![o].pc = "finalize"]
    /\ UNCHANGED << scheduled, active_sessions, cache, response >>
    /\ UNCHANGED wsVars
    /\ UNCHANGED genVars

\* replay_service.py:198-204  the READY emit and is_loaded = True
LoadFinish(o) ==
    /\ o \in Objs
    /\ LoopIdle
    /\ loader[o].pc = "finalize"
    /\ MarkLoaded(o, emit_progress(sessions[o], "ready", 100))
    /\ UNCHANGED << scheduled, active_sessions, cache, response >>
    /\ UNCHANGED wsVars
    /\ UNCHANGED genVars

----------------------------------------------------------------------------
(* Control plane                                                           *)

Reply(status, sid, loading, metadata, detail) ==
    [ status |-> status, session_id |-> sid,
      loading |-> loading, metadata |-> metadata, detail |-> detail ]

\* a create_session that never looks at the existing entry
ServedFromEntry_m(sid, refresh) == FALSE

\* sessions.py:23-25  the request is served from the existing entry
ServedFromEntry(sid, refresh) ==
    /\ sid \in DOMAIN active_sessions
    /\ ~refresh
    /\ sessions[active_sessions[sid]].is_loaded

\* sessions.py:15-39  create_session
create_session(year, round_num, session_type, refresh) ==
    LET sid == SessionId(year, round_num, session_type)
    IN  /\ LoopIdle
        /\ IF ServedFromEntry(sid, refresh)
           THEN LET session == sessions[active_sessions[sid]]
                IN  /\ response' =
                         IF Truthy(session.load_error)
                         THEN Reply(400, None, None, None,
                                    session.load_error)
                         ELSE Reply(200, Some(sid), None,
                                    Some(get_metadata(session)), None)
                    /\ UNCHANGED << sessions, loader, scheduled,
                                    active_sessions >>
           ELSE LET session == NewSession(year, round_num, session_type, refresh)
                IN  /\ Len(sessions) < MaxSessions
                    /\ sessions' = Append(sessions, session)
                    /\ loader' = Append(loader, NewLoader)
                    /\ scheduled' = Append(scheduled, << >>)
                    /\ active_sessions' =
                         [ i \in DOMAIN active_sessions \cup {sid} |->
                             IF i = sid THEN Len(sessions) + 1
                             ELSE active_sessions[i] ]
                    /\ response' = Reply(200, Some(sid), Some(TRUE),
                                         Some(get_metadata(session)), None)
        /\ UNCHANGED cache
        /\ UNCHANGED wsVars
        /\ UNCHANGED genVars

----------------------------------------------------------------------------
(* Streaming handler                                                       *)

RECURSIVE GCD(_, _)
GCD(a, b) == IF b = 0 THEN a ELSE GCD(b, a % b)

\* the playhead is kept in units of 1/Scale frame: Scale is the denominator
\* of FPS / TickHz in lowest terms, so that every advance is an integer
Scale == TickHz \div GCD(FPS, TickHz)

\* the advance of a loop that takes the tick rate for 30 Hz
Advance_m(speed) == (speed * FPS * Scale) \div 30

\* websocket.py:79  playback_speed * (1.0 / 60.0) * 25, in 1/Scale frames
Advance(speed) == (speed * FPS * Scale) \div TickHz

\* websocket.py:81  int(frame_index): truncation towards zero
IntOf(fi) == IF fi >= 0 THEN fi \div Scale ELSE -((-fi) \div Scale)

\* seek targets, in 1/Scale frames: -1, 0, 1 + 7/12, and the frame count
SeekTargets == {-Scale, 0, Scale + 7, NFrames * Scale}

\* websocket.py:18-19, :31-32, :38-39  send_json({"error": msg}); close()
SendError(msg) == ws_errors' = Append(ws_errors, msg)

\* websocket.py:10-22  accept and look the session up
WsConnect(sid) ==
    /\ ws_pc = "idle"
    /\ LoopIdle
    /\ IF sid \notin DOMAIN active_sessions
       THEN /\ SendError("Session not found")
            /\ ws_pc' = "ret_unknown"
            /\ UNCHANGED ws_session
       ELSE /\ ws_session' = active_sessions[sid]
            /\ ws_pc' = "wait"
            /\ UNCHANGED ws_errors
    /\ UNCHANGED << ws_elapsed, ws_recv, ws_got_frame, ws_sent >>
    /\ UNCHANGED loopVars
    /\ UNCHANGED ghostVars
    /\ UNCHANGED send_error
    /\ UNCHANGED sessVars
    /\ UNCHANGED genVars

\* a wait that reports the timeout and goes on waiting
WsPoll_m ==
    /\ ws_pc = "wait"
    /\ LoopIdle
    /\ ~sessions[ws_session].is_loaded
    /\ IF ws_elapsed > LoadTimeoutPolls
       THEN /\ SendError("Session load timeout")
            /\ Len(ws_errors) < 2
            /\ UNCHANGED << ws_pc, ws_elapsed >>
       ELSE /\ ws_elapsed' = ws_elapsed + 1
            /\ UNCHANGED << ws_pc, ws_errors >>
    /\ UNCHANGED << ws_session, ws_recv, ws_got_frame, ws_sent >>
    /\ UNCHANGED loopVars
    /\ UNCHANGED ghostVars
    /\ UNCHANGED send_error
    /\ UNCHANGED sessVars
    /\ UNCHANGED genVars

\* websocket.py:27-34  one round of the wait for is_loaded
WsPoll ==
    /\ ws_pc = "wait"
    /\ LoopIdle
    /\ ~sessions[ws_session].is_loaded
    /\ IF ws_elapsed > LoadTimeoutPolls
       THEN /\ SendError("Session load timeout")
            /\ ws_pc' = "ret_timeout"
            /\ UNCHANGED ws_elapsed
       ELSE /\ ws_elapsed' = ws_elapsed + 1
            /\ UNCHANGED << ws_pc, ws_errors >>
    /\ UNCHANGED << ws_session, ws_recv, ws_got_frame, ws_sent >>
    /\ UNCHANGED loopVars
    /\ UNCHANGED ghostVars
    /\ UNCHANGED send_error
    /\ UNCHANGED sessVars
    /\ UNCHANGED genVars

\* websocket.py:36  if session.load_error
LoadFailed(session) == Truthy(session.load_error)

\* websocket.py:36-47  the session is loaded: report its error, or enter the
\* streaming loop (len(session.frames) at :42 raises when frames is None)
WsLoaded ==
    /\ ws_pc = "wait"
    /\ LoopIdle
    /\ sessions[ws_session].is_loaded
    /\ IF LoadFailed(sessions[ws_session])
       THEN /\ SendError(sessions[ws_session].load_error[1])
            /\ ws_pc' = "ret_error"
            /\ UNCHANGED loopVars
       ELSE IF sessions[ws_session].frames = None
       THEN /\ ws_pc' = "crashed"
            /\ UNCHANGED ws_errors
            /\ UNCHANGED loopVars
       ELSE /\ ws_pc' = "recv"
            /\ frame_index' = 0
            /\ playback_speed' = 1
            /\ is_playing' = FALSE
            /\ last_frame_sent' = -1
            /\ UNCHANGED ws_errors
    /\ UNCHANGED << ws_session, ws_elapsed, ws_recv, ws_got_frame, ws_sent >>
    /\ UNCHANGED ghostVars
    /\ UNCHANGED send_error
    /\ UNCHANGED sessVars
    /\ UNCHANGED genVars

\* a play command that leaves the speed as it was
RecvPlay_m(speed) ==
    /\ LoopIdle
    /\ ws_pc = "recv"
    /\ is_playing' = TRUE
    /\ ws_recv' = << "play", speed >>
    /\ ws_pc' = "tick"
    /\ run_last' = IF is_playing THEN run_last ELSE -1
    /\ run_nonneg' = IF is_playing THEN run_nonneg /\ speed >= 0 ELSE speed >= 0
    /\ UNCHANGED << frame_index, playback_speed, last_frame_sent,
                    seek_pending, win_ticks, win_first >>
    /\ ws_sent' = None
    /\ UNCHANGED << ws_session, ws_elapsed, ws_errors, ws_got_frame >>
    /\ UNCHANGED send_error
    /\ UNCHANGED sessVars
    /\ UNCHANGED genVars

\* websocket.py:54-56  {"action": "play", "speed": s}; speed defaults to 1.0
RecvPlay(speed) ==
    /\ LoopIdle
    /\ ws_pc = "recv"
    /\ is_playing' = TRUE
    /\ playback_speed' = speed
    /\ ws_recv' = << "play", speed >>
    /\ ws_pc' = "tick"
    /\ run_last' = IF is_playing THEN run_last ELSE -1
    /\ run_nonneg' = IF is_playing THEN run_nonneg /\ speed >= 0 ELSE speed >= 0
    /\ UNCHANGED << frame_index, last_frame_sent, seek_pending, win_ticks,
                    win_first >>
    /\ ws_sent' = None
    /\ UNCHANGED << ws_session, ws_elapsed, ws_errors, ws_got_frame >>
    /\ UNCHANGED send_error
    /\ UNCHANGED sessVars
    /\ UNCHANGED genVars

\* a pause that also forgets which frame was sent last
RecvPause_m ==
    /\ LoopIdle
    /\ ws_pc = "recv"
    /\ is_playing' = FALSE
    /\ last_frame_sent' = -1
    /\ ws_recv' = << "pause" >>
    /\ ws_pc' = "tick"
    /\ run_last' = -1
    /\ run_nonneg' = TRUE
    /\ UNCHANGED << frame_index, playback_speed,
                    seek_pending, win_ticks, win_first >>
    /\ ws_sent' = None
    /\ UNCHANGED << ws_session, ws_elapsed, ws_errors, ws_got_frame >>
    /\ UNCHANGED send_error
    /\ UNCHANGED sessVars
    /\ UNCHANGED genVars

\* websocket.py:58-59  {"action": "pause"}
RecvPause ==
    /\ LoopIdle
    /\ ws_pc = "recv"
    /\ is_playing' = FALSE
    /\ ws_recv' = << "pause" >>
    /\ ws_pc' = "tick"
    /\ run_last' = -1
    /\ run_nonneg' = TRUE
    /\ UNCHANGED << frame_index, playback_speed, last_frame_sent,
                    seek_pending, win_ticks, win_first >>
    /\ ws_sent' = None
    /\ UNCHANGED << ws_session, ws_elapsed, ws_errors, ws_got_frame >>
    /\ UNCHANGED send_error
    /\ UNCHANGED sessVars
    /\ UNCHANGED genVars

\* a seek that leaves last_frame_sent as it was
RecvSeek_m(f) ==
    /\ LoopIdle
    /\ ws_pc = "recv"
    /\ frame_index' = f
    /\ ws_recv' = << "seek", f >>
    /\ ws_pc' = "tick"
    /\ seek_pending' = Some(f)
    /\ run_last' = -1
    /\ run_nonneg' = (is_playing => playback_speed >= 0)
    /\ ws_sent' = None
    /\ UNCHANGED << playback_speed, is_playing, last_frame_sent, win_ticks,
                    win_first >>
    /\ UNCHANGED << ws_session, ws_elapsed, ws_errors, ws_got_frame >>
    /\ UNCHANGED send_error
    /\ UNCHANGED sessVars
    /\ UNCHANGED genVars

\* websocket.py:61-63  {"action": "seek", "frame": f}; frame defaults to 0
RecvSeek(f) ==
    /\ LoopIdle
    /\ ws_pc = "recv"
    /\ frame_index' = f
    /\ last_frame_sent' = -1
    /\ ws_recv' = << "seek", f >>
    /\ ws_pc' = "tick"
    /\ seek_pending' = Some(f)
    /\ run_last' = -1
    /\ run_nonneg' = (is_playing => playback_speed >= 0)
    /\ UNCHANGED << playback_speed, is_playing, win_ticks, win_first >>
    /\ ws_sent' = None
    /\ UNCHANGED << ws_session, ws_elapsed, ws_errors, ws_got_frame >>
    /\ UNCHANGED send_error
    /\ UNCHANGED sessVars
    /\ UNCHANGED genVars

\* websocket.py:54-64  a message whose action is none of play, pause, seek
RecvUnknown ==
    /\ LoopIdle
    /\ ws_pc = "recv"
    /\ ws_recv' = << "unknown" >>
    /\ ws_pc' = "tick"
    /\ UNCHANGED loopVars
    /\ UNCHANGED ghostVars
    /\ ws_sent' = None
    /\ UNCHANGED << ws_session, ws_elapsed, ws_errors, ws_got_frame >>
    /\ UNCHANGED send_error
    /\ UNCHANGED sessVars
    /\ UNCHANGED genVars

\* a receive without timeout: with no message the handler stays in it
RecvTimeout_m ==
    /\ LoopIdle
    /\ ws_pc = "recv"
    /\ ws_recv' = << "timeout" >>
    /\ ws_pc' = "recv"
    /\ ws_sent' = None
    /\ UNCHANGED loopVars
    /\ UNCHANGED ghostVars
    /\ UNCHANGED << ws_session, ws_elapsed, ws_errors, ws_got_frame >>
    /\ UNCHANGED send_error
    /\ UNCHANGED sessVars
    /\ UNCHANGED genVars

\* websocket.py:52, :65-66  wait_for gives up after 10 ms: TimeoutError, pass
RecvTimeout ==
    /\ LoopIdle
    /\ ws_pc = "recv"
    /\ ws_recv' = << "timeout" >>
    /\ ws_pc' = "tick"
    /\ UNCHANGED loopVars
    /\ UNCHANGED ghostVars
    /\ ws_sent' = None
    /\ UNCHANGED << ws_session, ws_elapsed, ws_errors, ws_got_frame >>
    /\ UNCHANGED send_error
    /\ UNCHANGED sessVars
    /\ UNCHANGED genVars

\* websocket.py:67-72, :111-113  the client disconnected: break, close
RecvDisconnect ==
    /\ LoopIdle
    /\ ws_pc = "recv"
    /\ ws_recv' = << "disconnect" >>
    /\ ws_pc' = "closed"
    /\ UNCHANGED loopVars
    /\ UNCHANGED ghostVars
    /\ ws_sent' = None
    /\ UNCHANGED << ws_session, ws_elapsed, ws_errors, ws_got_frame >>
    /\ UNCHANGED send_error
    /\ UNCHANGED sessVars
    /\ UNCHANGED genVars

\* websocket.py:67-70, :73-75  any other exception of the receive (a message
\* that is not JSON, a frame that float() rejects): continue, without a tick
RecvError ==
    /\ LoopIdle
    /\ ws_pc = "recv"
    /\ ws_recv' = << "error" >>
    /\ ws_pc' = "recv"
    /\ UNCHANGED loopVars
    /\ UNCHANGED ghostVars
    /\ ws_sent' = None
    /\ UNCHANGED << ws_session, ws_elapsed, ws_errors, ws_got_frame >>
    /\ UNCHANGED send_error
    /\ UNCHANGED sessVars
    /\ UNCHANGED genVars

\* websocket.py:92-100  what the send of a frame raises when it fails: a
\* WebSocketDisconnect or a RuntimeError that names a disconnect, another
\* RuntimeError, any other exception
SendFailures == {"disconnect", "runtime", "other"}

\* a tick that does not compare the frame with the one sent last
ShouldSend_m(current_frame, last, num_frames) ==
    /\ 0 <= current_frame
    /\ current_frame < num_frames

\* websocket.py:82  the frame under the playhead is sent when it is not the
\* one sent last and is a frame of the session
ShouldSend(current_frame, last, num_frames) ==
    /\ current_frame # last
    /\ 0 <= current_frame
    /\ current_frame < num_frames

\* a tick that stops only once the playhead has passed the number of frames
AtEnd_m(fi, num_frames) == fi > num_frames * Scale

\* websocket.py:87  the playhead has reached or passed the number of frames
AtEnd(fi, num_frames) == fi >= num_frames * Scale

\* websocket.py:77-100  the tick: advance, send the frame if it is a new one
\* in range, stop at the end, sleep 1/60 s; a failing send ends the loop
TickBody ==
    LET N  == NumFrames(sessions[ws_session])
        fi == IF is_playing
              THEN frame_index + Advance(playback_speed)
              ELSE frame_index
        current_frame == IntOf(fi)
        send == ShouldSend(current_frame, last_frame_sent, N)
    IN  /\ LoopIdle
        /\ ws_pc = "tick"
        /\ fi >= -(MaxRewind * Scale)
        /\ \/ /\ last_frame_sent' = IF send THEN current_frame
                                    ELSE last_frame_sent
              /\ ws_got_frame' = (ws_got_frame \/ send)
              /\ ws_sent' = IF send THEN Some(current_frame) ELSE None
              /\ IF AtEnd(fi, N)
                 THEN /\ is_playing' = FALSE
                      /\ frame_index' = (N - 1) * Scale
                 ELSE /\ frame_index' = fi
                      /\ UNCHANGED is_playing
              /\ ws_pc' = "recv"
              /\ UNCHANGED send_error
              /\ seek_pending' = IF send THEN None ELSE seek_pending
              /\ run_last' = IF send /\ is_playing THEN current_frame
                             ELSE run_last
           \/ /\ send
              /\ frame_index' = fi
              /\ ws_pc' = "closed"
              /\ \E e \in SendFailures : send_error' = Some(e)
              /\ UNCHANGED << is_playing, last_frame_sent, ws_got_frame,
                              ws_sent, seek_pending, run_last >>
        /\ UNCHANGED << playback_speed, run_nonneg >>
        /\ UNCHANGED << ws_session, ws_elapsed, ws_recv, ws_errors >>
        /\ UNCHANGED sessVars
        /\ UNCHANGED genVars

Tick ==
    /\ TickBody
    /\ UNCHANGED << win_ticks, win_first >>

----------------------------------------------------------------------------
(* The whole service                                                       *)

\* no session, no client
ServiceIdle ==
    /\ upstream = FirstUpstream
    /\ computed = [ f \in CacheFiles |-> None ]
    /\ sessions = << >>
    /\ loader = << >>
    /\ scheduled = << >>
    /\ active_sessions = [ i \in {} |-> 0 ]
    /\ cache = [ f \in CacheFiles |-> None ]
    /\ response = Reply(0, None, None, None, None)
    /\ ws_pc = "idle"
    /\ ws_session = 0
    /\ ws_elapsed = 0
    /\ frame_index = 0
    /\ playback_speed = 1
    /\ is_playing = FALSE
    /\ last_frame_sent = -1
    /\ ws_recv = << "none" >>
    /\ ws_errors = << >>
    /\ ws_got_frame = FALSE
    /\ ws_sent = None
    /\ send_error = None
    /\ seek_pending = None
    /\ run_last = -1
    /\ run_nonneg = TRUE
    /\ win_ticks = 0
    /\ win_first = -1

Init == GenIdle /\ ServiceIdle

\* requests for race sessions, with and without refresh
CreateSession ==
    \E y \in Years, r \in Rounds, refresh \in BOOLEAN :
        create_session(y, r, "R", refresh)

\* the first request for a session, of either kind
CreateFirst ==
    \E y \in Years, r \in Rounds, k \in Kinds :
        /\ SessionId(y, r, k) \notin DOMAIN active_sessions
        /\ create_session(y, r, k, FALSE)

Load ==
    \E o \in 1 .. MaxSessions :
        \/ LoadStart(o)
        \/ LoadSession(o)
        \/ ThreadProgress(o)
        \/ ThreadReturn(o)
        \/ RunScheduledEmit(o)
        \/ LoadAfterFetch(o)
        \/ LoadGeometry(o)
        \/ LoadFinish(o)

Connect ==
    \/ \E sid \in SessionIds : WsConnect(sid)
    \/ WsPoll
    \/ WsLoaded

\* the control plane and the background loads
Next ==
    \/ CreateSession
    \/ Load

Spec == Init /\ [][Next]_vars

\* FastF1 revises what it holds for the event: a computation from now on
\* yields the other artifact
Republish ==
    /\ upstream = FirstUpstream
    /\ upstream' = RevisedUpstream
    /\ UNCHANGED << sessVars, wsVars, frameVars, prepVars, callVars,
                    computed >>

\* the prefixes of a pickle stream that a write cut short leaves behind:
\* the empty file, and the stream short of its last opcode
Prefixes(b) == { << >>, SubSeq(b, 1, Len(b) - 1) }

\* computed_data/ holds a partial cache file: the process that wrote it was
\* killed inside pickle.dump (f1_data.py:1209-1216), between two loads
Truncate ==
    /\ \A o \in Objs : loader[o].pc = "done"
    /\ \E f \in CacheFiles :
         /\ cache[f] # None
         /\ Intact(cache[f][1])
         /\ \E b \in Prefixes(cache[f][1]) :
              cache' = [cache EXCEPT ![f] = Some(b)]
         /\ computed' = [computed EXCEPT ![f] = None]
    /\ UNCHANGED << sessions, loader, scheduled, active_sessions, response >>
    /\ UNCHANGED << wsVars, frameVars, prepVars, callVars, upstream >>

\* sessions.py:12  active_sessions = {}: the server process starts again,
\* after the loads ended, over the computed_data/ the last one left
Restart ==
    /\ sessions # << >>
    /\ \A o \in Objs : loader[o].pc = "done"
    /\ sessions' = << >>
    /\ loader' = << >>
    /\ scheduled' = << >>
    /\ active_sessions' = [ i \in {} |-> 0 ]
    /\ response' = Reply(0, None, None, None, None)
    /\ UNCHANGED cache
    /\ UNCHANGED wsVars
    /\ UNCHANGED genVars

\* requests for race sessions, each sent after the loads before it ended
CreateSequential ==
    /\ \A o \in Objs : loader[o].pc = "done"
    /\ CreateSession

\* loads of race sessions, one after the other, over a cache directory whose
\* files may be cut short and an upstream that may be revised
CacheNext ==
    \/ CreateSequential
    \/ Load
    \/ Republish
    \/ Truncate
    \/ Restart

CacheSpec == Init /\ [][CacheNext]_vars

\* a streaming client that connects while sessions are created and loaded,
\* and sends no command
ConnectNext ==
    \/ CreateFirst
    \/ Load
    \/ Connect
    \/ RecvTimeout
    \/ RecvDisconnect
    \/ Tick

ConnectSpec == Init /\ [][ConnectNext]_vars

----------------------------------------------------------------------------
(* The streaming loop on its own                                           *)

\* a session as load_data leaves it when it ends in READY
LoadedSession(session_type, num_frames, laps) ==
    [ NewSession(2024, 1, session_type, FALSE) EXCEPT
        !.frames = Some(num_frames), !.total_laps = laps,
        !.msgpack_frames = PreSerialized(num_frames),
        !.state = "ready", !.progress = 100, !.is_loaded = TRUE ]

\* the service with one loaded session and one client at websocket.py:50
LoopEntry(session, num_frames) ==
    /\ GenIdle
    /\ sessions = << session >>
    /\ loader = << [NewLoader EXCEPT !.pc = "done"] >>
    /\ scheduled = << << >> >>
    /\ active_sessions =
         [ i \in {SessionId(session.year, session.round_num,
                            session.session_type)} |-> 1 ]
    /\ cache = [ f \in CacheFiles |->
                   IF f = CacheFile(session.year, session.round_num,
                                    session.session_type)
                   THEN Some(Pickle([ FirstUpstream EXCEPT
                                        !.frames = num_frames,
                                        !.total_laps = session.total_laps ]))
                   ELSE None ]
    /\ upstream = FirstUpstream
    /\ computed = [ f \in CacheFiles |-> None ]
    /\ response = Reply(200, Some(SessionId(session.year, session.round_num,
                                            session.session_type)),
                        Some(TRUE),
                        Some(get_metadata(NewSession(session.year,
                               session.round_num, session.session_type,
                               FALSE))),
                        None)
    /\ ws_pc = "recv"
    /\ ws_session = 1
    /\ ws_elapsed = 0
    /\ ws_recv = << "none" >>
    /\ ws_errors = << >>
    /\ ws_got_frame = FALSE
    /\ ws_sent = None
    /\ send_error = None
    /\ seek_pending = None
    /\ run_last = -1
    /\ run_nonneg = TRUE
    /\ win_ticks = 0

StreamInit ==
    /\ \/ \E laps \in Laps : LoopEntry(LoadedSession("R", NFrames, laps), NFrames)
       \/ LoopEntry(LoadedSession("Q", 0, 0), 0)
    /\ frame_index = 0
    /\ playback_speed = 1
    /\ is_playing = FALSE
    /\ last_frame_sent = -1
    /\ win_first = -1

\* dict.get(key, default)
get(data, key, default) == IF key \in DOMAIN data THEN data[key] ELSE default

\* the JSON objects a client sends: commands with and without their
\* argument, an action the handler does not know, and the empty object
Messages ==
    { << >>, [ action |-> "pause" ], [ action |-> "stop" ],
      [ action |-> "play" ], [ action |-> "seek" ] }
    \cup { [ action |-> "play", speed |-> speed ] : speed \in Speeds }
    \cup { [ action |-> "seek", frame |-> f ] : f \in SeekTargets }

\* websocket.py:54-64  the handling of the object receive_json returned;
\* data.get("action") is None without the key, which like "" is no command
OnMessage(data) ==
    \/ /\ get(data, "action", "") = "play"
       /\ RecvPlay(get(data, "speed", 1))
    \/ /\ get(data, "action", "") = "pause"
       /\ RecvPause
    \/ /\ get(data, "action", "") = "seek"
       /\ RecvSeek(get(data, "frame", 0))
    \/ /\ get(data, "action", "") \notin {"play", "pause", "seek"}
       /\ RecvUnknown

Receive ==
    \/ \E data \in Messages : OnMessage(data)
    \/ RecvTimeout
    \/ RecvDisconnect
    \/ RecvError

StreamNext ==
    \/ Receive
    \/ Tick

StreamSpec == StreamInit /\ [][StreamNext]_vars

\* wait_for returns within its 10 ms and the sleep of a tick ends
FairStreamSpec ==
    StreamInit /\ [][StreamNext]_vars /\ WF_vars(RecvTimeout) /\ WF_vars(Tick)

----------------------------------------------------------------------------
(* A client that plays at one speed and sends nothing more                 *)

\* a tick of the measured window
RateTick ==
    /\ TickBody
    /\ win_ticks < RateWindow
    /\ win_ticks' = win_ticks + 1
    /\ UNCHANGED win_first

\* playing at some speed, the frame under the playhead just sent
RateInit ==
    /\ \E laps \in Laps :
         LoopEntry(LoadedSession("R", RateFrames, laps), RateFrames)
    /\ frame_index \in 0 .. Scale - 1
    /\ playback_speed \in Speeds
    /\ is_playing = TRUE
    /\ last_frame_sent = 0
    /\ win_first = 0

RateNext ==
    \/ RecvTimeout
    \/ RateTick

RateSpec == RateInit /\ [][RateNext]_vars

----------------------------------------------------------------------------
(* Frame generation: the loop of get_race_telemetry                        *)

\* driver_codes, in the order of the list
driver_codes == [ c \in 1 .. MaxDrivers |-> c ]

Codes == 1 .. MaxDrivers

\* DT, in ms
DTms == 1000 \div FPS

\* t_abs of frame i, in ms, in a session whose telemetry starts at 0
t_abs(i) == i * DTms

InSeq(e, seq) == \E k \in 1 .. Len(seq) : seq[k] = e

\* the index of e in a list, as enumerate counts it; -1 where it is absent
IndexOf(seq, e) ==
    IF InSeq(e, seq)
    THEN (CHOOSE k \in 1 .. Len(seq) : seq[k] = e) - 1
    ELSE -1

\* the order of Python on tuples of three numbers
TupleLess(x, y) ==
    \/ x[1] < y[1]
    \/ x[1] = y[1] /\ x[2] < y[2]
    \/ x[1] = y[1] /\ x[2] = y[2] /\ x[3] < y[3]

\* the list in the order of the ranks: ranks[k] is the place of list[k]
Placed(list, ranks) ==
    [ r \in 1 .. Len(list) |->
        list[CHOOSE k \in 1 .. Len(list) : ranks[k] = r] ]

\* the places a stable sort gives to the elements whose keys are keys[k]
RanksOf(keys) ==
    [ k \in DOMAIN keys |->
        1 + Cardinality({ j \in DOMAIN keys :
                            \/ TupleLess(keys[j], keys[k])
                            \/ keys[j] = keys[k] /\ j < k }) ]

\* sorted(list, key=...): stable, on a list without repetition; key[e] is
\* the key of element e
StableSort(list, key) ==
    Placed(list, RanksOf([ k \in 1 .. Len(list) |-> key[list[k]] ]))

\* np.isnan: NaN is modelled as -1, a value race progress never takes
\* (f1_data.py:934 sets what is negative to 0)
isnan(x) == x = -1

\* a key that takes every position of the stream as it comes
sort_key_hybrid_m(code, frame_data_raw) ==
    IF code \notin DOMAIN frame_data_raw
    THEN << 9999, 9999, 0 >>
    ELSE LET data == frame_data_raw[code]
             pos_val == IF data.pos_raw # None
                        THEN data.pos_raw[1] ELSE 9999
             interval_val == IF data.interval_smooth # None
                             THEN data.interval_smooth[1] ELSE 9999
             race_progress_val == IF ~ isnan(data.race_progress)
                                  THEN data.race_progress ELSE 0
         IN  << pos_val, interval_val, - race_progress_val >>

sort_key_hybrid(code, frame_data_raw) ==
    IF code \notin DOMAIN frame_data_raw
    THEN << 9999, 9999, 0 >>
    ELSE LET data == frame_data_raw[code]
             pos_val == IF data.pos_raw # None /\ data.pos_raw[1] > 0
                        THEN data.pos_raw[1] ELSE 9999
             interval_val == IF data.interval_smooth # None
                             THEN data.interval_smooth[1] ELSE 9999
             race_progress_val == IF ~ isnan(data.race_progress)
                                  THEN data.race_progress ELSE 0
         IN  << pos_val, interval_val, - race_progress_val >>

\* PositionSmoothing._get_threshold, in ms
get_threshold(status) == IF status \in {"4", "6", "7"} THEN 300 ELSE 1000

\* a smoother that keeps the refused drivers of the previous order even
\* when the candidate order no longer has them
Smoothed_m(sorted_codes, current_time, changed, late) ==
    [ order |->
        SelectSeq(previous_order, LAMBDA c : changed[c] /\ ~ late[c])
        \o SelectSeq(sorted_codes, LAMBDA c : ~ changed[c] \/ late[c]),
      last_change_time |-> last_change_time ]

\* the second half of PositionSmoothing.apply: changed[c] says that the
\* index of c moved, late[c] that its last accepted change is old enough
Smoothed(sorted_codes, current_time, changed, late) ==
    [ order |->
        SelectSeq(previous_order,
                  LAMBDA c : InSeq(c, sorted_codes) /\ changed[c] /\ ~ late[c])
        \o SelectSeq(sorted_codes, LAMBDA c : ~ changed[c] \/ late[c]),
      last_change_time |->
        [ c \in Codes |->
            IF InSeq(c, sorted_codes) /\ changed[c] /\ late[c]
            THEN current_time ELSE last_change_time[c] ] ]

\* PositionSmoothing.apply: the order it returns, which it also keeps as
\* previous_order, and the last_change_time it leaves
apply(sorted_codes, current_time, status) ==
    IF previous_order = << >>
    THEN [ order |-> sorted_codes, last_change_time |-> last_change_time ]
    ELSE Smoothed(sorted_codes, current_time,
                  [ c \in Codes |->
                      /\ IndexOf(previous_order, c) # -1
                      /\ IndexOf(previous_order, c) # IndexOf(sorted_codes, c) ],
                  [ c \in Codes |->
                      current_time - last_change_time[c]
                          >= get_threshold(status) ])

\* sorted(sorted_codes, key=snap_sort_key) for the corrections snap
Anchored(sorted_codes, snap) ==
    IF sorted_codes = << >> \/ \A k \in 1 .. Len(sorted_codes) :
                                   snap[sorted_codes[k]] = None
    THEN sorted_codes
    ELSE Placed(sorted_codes,
                RanksOf([ k \in 1 .. Len(sorted_codes) |->
                            IF snap[sorted_codes[k]] # None
                            THEN << 0, snap[sorted_codes[k]][1], 0 >>
                            ELSE << 1, k - 1, 0 >> ]))

apply_lap_anchor(sorted_codes, frame_data_raw) ==
    Anchored(sorted_codes,
             [ c \in Codes |-> lap_boundaries[c][frame_data_raw[c].lap] ])

\* in ms; the quotient of the code is a float
distance_to_time_gap(distance_diff, speed_ms) ==
    IF speed_ms <= 0 \/ distance_diff <= 0
    THEN 0
    ELSE (distance_diff * 1000) \div speed_ms

GapsAt_m(idx, sorted_codes, frame_data) ==
    LET data == frame_data[sorted_codes[idx + 1]]
        current_speed_ms == (data.speed * 1000) \div 3600
        Gap(dist_diff) ==
            IF current_speed_ms > 0
            THEN (dist_diff * 1000) \div current_speed_ms
            ELSE 0
    IN  [ gap_to_previous |->
            Gap(frame_data[sorted_codes[IF idx > 0 THEN idx ELSE 1]]
                    .race_progress - data.race_progress),
          gap_to_leader |->
            Gap(frame_data[sorted_codes[1]].race_progress
                    - data.race_progress) ]

\* the gaps of the driver at 0-based index idx of sorted_codes
GapsAt(idx, sorted_codes, frame_data) ==
    LET data == frame_data[sorted_codes[idx + 1]]
        current_speed_ms == (data.speed * 1000) \div 3600
        prev_data == frame_data[sorted_codes[idx]]
        leader_data == frame_data[sorted_codes[1]]
        Gap(dist_diff) ==
            IF dist_diff > 0 /\ current_speed_ms > 0
            THEN distance_to_time_gap(dist_diff, current_speed_ms)
            ELSE 0
    IN  IF idx > 0
        THEN [ gap_to_previous |->
                 Gap(prev_data.race_progress - data.race_progress),
               gap_to_leader |->
                 Gap(leader_data.race_progress - data.race_progress) ]
        ELSE [ gap_to_previous |-> 0, gap_to_leader |-> 0 ]

calculate_gaps(sorted_codes, frame_data) ==
    [ code \in Codes |->
        GapsAt(IndexOf(sorted_codes, code), sorted_codes, frame_data) ]

\* the zero-speed tracking of one driver: its counter and its flag
ZeroSpeed(code, speed) ==
    IF speed = 0 THEN driver_zero_speed_time[code] + 1 ELSE 0

Retires_m(code, speed) ==
    speed = 0 /\ ZeroSpeed(code, speed) >= ZeroFramesToRetire

Retires(code, speed) ==
    \/ driver_retired[code]
    \/ speed = 0 /\ ZeroSpeed(code, speed) >= ZeroFramesToRetire

FinalOrder_m(smoothed_order, retired_codes, frame_data_raw) ==
    retired_codes \o apply_lap_anchor(smoothed_order, frame_data_raw)

\* sorted_codes of the frame: hybrid sort, hysteresis, lap anchor, retired
FinalOrder(smoothed_order, retired_codes, frame_data_raw) ==
    apply_lap_anchor(smoothed_order, frame_data_raw) \o retired_codes

\* the frames of a window of 0.25 s, and a count of frames within one
WindowFrames == 250 \div DTms + 1

UpTo(n) == IF n <= WindowFrames THEN n ELSE WindowFrames

\* the frame built from the order of the drivers, and the step of the
\* loop that leaves it
FrameData(frame_data_raw, retired, sorted_codes, current_gaps) ==
    [ c \in Codes |->
        [ position |-> IndexOf(sorted_codes, c) + 1,
          status |-> IF retired[c] THEN "Retired" ELSE "Finished",
          speed |-> frame_data_raw[c].speed,
          race_progress |-> frame_data_raw[c].race_progress,
          lap |-> frame_data_raw[c].lap,
          gap_to_previous |-> current_gaps[c].gap_to_previous,
          gap_to_leader |-> current_gaps[c].gap_to_leader ] ]

\* one iteration of the loop over range(num_frames)
FrameStep(frame_data_raw, current_track_status) ==
    \E retired \in { [ c \in Codes |-> Retires(c, frame_data_raw[c].speed) ] } :
    \E hybrid \in
         { StableSort(SelectSeq(driver_codes, LAMBDA c : ~ retired[c]),
                      [ c \in Codes |->
                          sort_key_hybrid(c, frame_data_raw) ]) } :
    \E smoothed \in { apply(hybrid, t_abs(fr_i), current_track_status) } :
    \E sorted_codes \in
         { FinalOrder(smoothed.order,
                      SelectSeq(driver_codes, LAMBDA c : retired[c]),
                      frame_data_raw) } :
    \E frame_data \in
         { FrameData(frame_data_raw, retired, sorted_codes,
                     calculate_gaps(sorted_codes, frame_data_raw)) } :
    LET Moved(c) == frame # << >> /\ frame_data[c].position # frame[c].position
        flip == /\ candidate # << >>
                /\ hybrid # candidate
                /\ current_track_status = "4"
    IN  /\ fr_i' = fr_i + 1
        /\ driver_zero_speed_time' =
             [ c \in Codes |-> ZeroSpeed(c, frame_data_raw[c].speed) ]
        /\ driver_retired' = retired
        /\ previous_order' = smoothed.order
        /\ last_change_time' = smoothed.last_change_time
        /\ frame' = frame_data
        /\ track_status' = current_track_status
        /\ candidate' = IF current_track_status = "4" THEN hybrid ELSE << >>
        /\ rank_changed_at' =
             [ c \in Codes |->
                 IF Moved(c) THEN t_abs(fr_i) ELSE rank_changed_at[c] ]
        /\ alt_run' = IF flip THEN UpTo(alt_run + 1) ELSE 0
        /\ alt_steady' =
             IF ~ flip THEN 0
             ELSE IF alt_run > 0 /\ \A c \in Codes : ~ Moved(c)
                  THEN UpTo(alt_steady + 1)
                  ELSE 1
        /\ UNCHANGED lap_boundaries
        /\ UNCHANGED << sessVars, wsVars, prepVars, callVars, upstream,
                        computed >>

\* the laps a driver is in during the frames of the model
FrameLaps == {1, 2}

\* the official position of a driver at the end of lap 2: the grid reversed
Official(code) == MaxDrivers + 1 - code

\* lap_boundaries keeps the laps whose official position is known: here
\* lap 2, for some of the drivers
LapBoundaries ==
    { [ c \in Codes |->
          [ lap \in FrameLaps |->
              IF lap = 2 /\ c \in known THEN Some(Official(c)) ELSE None ] ] :
      known \in SUBSET Codes }

FrameSpeeds == {0, 90}

Perms(S) ==
    { p \in [ 1 .. Cardinality(S) -> S ] :
        \A j, k \in 1 .. Cardinality(S) : j # k => p[j] # p[k] }

\* the state at f1_data.py:985, before the first frame
FrameStart ==
    /\ fr_i = 0
    /\ driver_zero_speed_time = [ c \in Codes |-> 0 ]
    /\ driver_retired = [ c \in Codes |-> FALSE ]
    /\ previous_order = << >>
    /\ last_change_time = [ c \in Codes |-> 0 ]
    /\ lap_boundaries \in LapBoundaries
    /\ frame = << >>
    /\ track_status = "1"
    /\ candidate = << >>
    /\ rank_changed_at = [ c \in Codes |-> -1 ]
    /\ alt_run = 0
    /\ alt_steady = 0

\* the loop after ZeroFramesToRetire - 1 frames of lap 1 under green in
\* which the order never changed and each driver either stood still from the
\* start or moved throughout
FrameResume ==
    /\ fr_i = ZeroFramesToRetire - 1
    /\ driver_zero_speed_time \in [ Codes -> {0, ZeroFramesToRetire - 1} ]
    /\ driver_retired = [ c \in Codes |-> FALSE ]
    /\ previous_order = driver_codes
    /\ last_change_time = [ c \in Codes |-> 0 ]
    /\ lap_boundaries \in LapBoundaries
    /\ frame =
         [ c \in Codes |->
             [ position |-> IndexOf(previous_order, c) + 1,
               status |-> "Finished",
               speed |-> IF driver_zero_speed_time[c] = 0 THEN 90 ELSE 0,
               race_progress |-> 0,
               lap |-> 1,
               gap_to_previous |-> 0,
               gap_to_leader |-> 0 ] ]
    /\ track_status = "1"
    /\ candidate = << >>
    /\ rank_changed_at = [ c \in Codes |-> -1 ]
    /\ alt_run = 0
    /\ alt_steady = 0

\* a driver does not go back a lap, and the distance it covered never falls
Continues(laps, progress) ==
    frame # << >> =>
        \A c \in Codes : /\ laps[c] >= frame[c].lap
                         /\ progress[c] >= frame[c].race_progress

\* what the telemetry holds for one frame: the position stream ranks the
\* drivers in the given order, or is missing when the order is empty
RawOf(order, laps, speeds, progress) ==
    [ c \in Codes |->
        [ speed |-> speeds[c],
          race_progress |-> progress[c],
          lap |-> laps[c],
          pos_raw |-> IF order = << >> THEN None
                      ELSE Some(IndexOf(order, c) + 1),
          interval_smooth |-> None ] ]

\* frames under green whose order comes from the position stream and the
\* lap anchors;
\* a driver that moves keeps moving
RankFrame ==
    /\ fr_i < ZeroFramesToRetire - 1 + FrameSteps
    /\ \E order \in Perms(Codes), laps \in [ Codes -> FrameLaps ],
          speeds \in [ Codes -> FrameSpeeds ], status \in {"1"} :
          /\ \A c \in Codes : speeds[c] = 0 => driver_zero_speed_time[c] > 0
          /\ Continues(laps, [ c \in Codes |-> 0 ])
          /\ \E frame_data_raw \in
                 { RawOf(order, laps, speeds, [ c \in Codes |-> 0 ]) } :
                FrameStep(frame_data_raw, status)

RankInit == ServiceIdle /\ PrepIdle /\ CallIdle /\ FrameResume

RankSpec == RankInit /\ [][RankFrame]_vars

\* the loop from its first frame under green, without lap anchors and with
\* the order of the position stream fixed: the first driver stops and starts
\* at will, the others keep moving
NoBoundaries == [ c \in Codes |-> [ lap \in FrameLaps |-> None ] ]

RetireFrame ==
    /\ fr_i < ZeroFramesToRetire + FrameSteps
    /\ \E speed \in FrameSpeeds :
          \E frame_data_raw \in
              { RawOf(driver_codes, [ c \in Codes |-> 1 ],
                      [ c \in Codes |-> IF c = 1 THEN speed ELSE 90 ],
                      [ c \in Codes |-> 0 ]) } :
              FrameStep(frame_data_raw, "1")

RetireInit ==
    /\ ServiceIdle /\ PrepIdle /\ CallIdle
    /\ FrameStart /\ lap_boundaries = NoBoundaries

RetireSpec == RetireInit /\ [][RetireFrame]_vars

\* the loop after ZeroFramesToRetire - 1 frames of lap 1 under green in
\* which the order never changed and no driver is moving: each has stood
\* still from the first or from the second frame
StandInit ==
    /\ ServiceIdle /\ PrepIdle /\ CallIdle
    /\ fr_i = ZeroFramesToRetire - 1
    /\ driver_zero_speed_time \in
         [ Codes -> {ZeroFramesToRetire - 2, ZeroFramesToRetire - 1} ]
    /\ driver_retired = [ c \in Codes |-> FALSE ]
    /\ previous_order = driver_codes
    /\ last_change_time = [ c \in Codes |-> 0 ]
    /\ lap_boundaries = NoBoundaries
    /\ frame =
         [ c \in Codes |->
             [ position |-> IndexOf(previous_order, c) + 1,
               status |-> "Finished",
               speed |-> 0,
               race_progress |-> 0,
               lap |-> 1,
               gap_to_previous |-> 0,
               gap_to_leader |-> 0 ] ]
    /\ track_status = "1"
    /\ candidate = << >>
    /\ rank_changed_at = [ c \in Codes |-> -1 ]
    /\ alt_run = 0
    /\ alt_steady = 0

\* the frames of RankSpec, from a start without lap anchors in which all
\* drivers stand
StandSpec == StandInit /\ [][RankFrame]_vars

\* the loop under track status 4 after ZeroFramesToRetire - 1 frames: the
\* first two drivers swapped seven frames ago, which the smoother accepted,
\* and the candidate order has not changed since; all drivers keep moving
\* and no lap is anchored
FlickerInit ==
    /\ ServiceIdle
    /\ PrepIdle
    /\ CallIdle
    /\ fr_i = ZeroFramesToRetire - 1
    /\ driver_zero_speed_time = [ c \in Codes |-> 0 ]
    /\ driver_retired = [ c \in Codes |-> FALSE ]
    /\ previous_order = driver_codes
    /\ last_change_time =
         [ c \in Codes |-> IF c <= 2 THEN t_abs(fr_i - WindowFrames) ELSE 0 ]
    /\ lap_boundaries = NoBoundaries
    /\ frame =
         [ c \in Codes |->
             [ position |-> c, status |-> "Finished", speed |-> 90,
               race_progress |-> 0, lap |-> 1,
               gap_to_previous |-> 0, gap_to_leader |-> 0 ] ]
    /\ track_status = "4"
    /\ candidate = driver_codes
    /\ rank_changed_at =
         [ c \in Codes |-> IF c <= 2 THEN t_abs(fr_i - WindowFrames) ELSE -1 ]
    /\ alt_run = 0
    /\ alt_steady = 0

FlickerFrame ==
    /\ fr_i < ZeroFramesToRetire - 1 + FlickerFrames
    /\ \E order \in Perms(Codes) :
          \E frame_data_raw \in
              { RawOf(order, [ c \in Codes |-> 1 ], [ c \in Codes |-> 90 ],
                      [ c \in Codes |-> 0 ]) } :
              FrameStep(frame_data_raw, "4")

FlickerSpec == FlickerInit /\ [][FlickerFrame]_vars

\* the distances covered, in m
GapProgress == {0, 50, 100}

\* the loop from its first frame under green, without position stream and
\* without lap anchors: the order comes from the distances covered
GapFrame ==
    /\ fr_i < FrameSteps
    /\ \E speeds \in [ Codes -> FrameSpeeds ],
          progress \in [ Codes -> GapProgress ] :
          /\ Continues([ c \in Codes |-> 1 ], progress)
          /\ \E frame_data_raw \in
                 { RawOf(<< >>, [ c \in Codes |-> 1 ], speeds, progress) } :
                FrameStep(frame_data_raw, "1")

GapInit ==
    /\ ServiceIdle /\ PrepIdle /\ CallIdle
    /\ FrameStart /\ lap_boundaries = NoBoundaries

GapSpec == GapInit /\ [][GapFrame]_vars

----------------------------------------------------------------------------
(* The functions that order the drivers, called on their own               *)

\* what a frame may hold for a driver: a stream position that is missing, 0
\* or a rank, a smoothed interval or none, a race progress or NaN
RawData ==
    [ pos_raw : {None} \cup { Some(p) : p \in 0 .. MaxDrivers },
      interval_smooth : {None, Some(5)},
      race_progress : {-1, 0, 10} ]

\* sorted(active_codes, key=...) is about to be called for a frame that
\* holds data for some of the drivers
SortInit ==
    /\ ServiceIdle /\ PrepIdle /\ FrameIdle
    /\ \E present \in SUBSET Codes :
         call \in { [ fn |-> "sorted", frame_data_raw |-> raw ] :
                    raw \in [ present -> RawData ] }
    /\ returned = << >>

\* f1_data.py:1104  sorted(active_codes, key=lambda code:
\* sort_key_hybrid(code, frame_data_raw)), with the key of each driver
SortStep ==
    /\ call # << >>
    /\ call.fn = "sorted"
    /\ returned = << >>
    /\ \E key \in { [ c \in Codes |->
                        sort_key_hybrid(c, call.frame_data_raw) ] } :
         returned' = << [ key |-> key,
                          sorted_codes |-> StableSort(driver_codes, key) ] >>
    /\ UNCHANGED << sessVars, wsVars, frameVars, prepVars, call, upstream,
                    computed >>

SortSpec == SortInit /\ [][SortStep]_vars

\* the lists of drivers without repetition
Orders == UNION { Perms(S) : S \in SUBSET Codes }

\* a PositionSmoothing object 1 s into the race, with any previous order and
\* drivers whose last accepted change is 1 s, 0.6 s or 0.04 s old
SmoothInit ==
    /\ ServiceIdle /\ PrepIdle /\ CallIdle
    /\ fr_i = FPS
    /\ previous_order \in Orders
    /\ last_change_time \in
         [ Codes -> {0, t_abs(FPS) - 600, t_abs(FPS - 1)} ]
    /\ driver_zero_speed_time = << >>
    /\ driver_retired = << >>
    /\ lap_boundaries = << >>
    /\ frame = << >>
    /\ track_status = "1"
    /\ candidate = << >>
    /\ rank_changed_at = << >>
    /\ alt_run = 0
    /\ alt_steady = 0

\* f1_data.py:1107-1112  position_smoother.apply(sorted_codes,
\* frame_data_raw, t_abs, current_track_status), for any list of drivers
SmoothStep ==
    /\ call = << >>
    /\ \E sorted_codes \in Orders, status \in {"1", "4"} :
       \E smoothed \in { apply(sorted_codes, t_abs(fr_i), status) } :
         /\ call' = [ fn |-> "apply", sorted_codes |-> sorted_codes,
                      current_time |-> t_abs(fr_i), track_status |-> status ]
         /\ returned' = << smoothed.order >>
         /\ previous_order' = smoothed.order
         /\ last_change_time' = smoothed.last_change_time
    /\ UNCHANGED << fr_i, driver_zero_speed_time, driver_retired,
                    lap_boundaries, frame, track_status, candidate,
                    rank_changed_at, alt_run, alt_steady >>
    /\ UNCHANGED << sessVars, wsVars, prepVars, upstream, computed >>

SmoothSpec == SmoothInit /\ [][SmoothStep]_vars

----------------------------------------------------------------------------
(* Timeline and race progress: the set-up of get_race_telemetry            *)

\* len(np.arange(start, stop, step)): the multiples of step below the span
ArangeLen(start, stop, step) ==
    IF stop <= start THEN 0 ELSE (stop - start + step - 1) \div step

\* abs_timeline[k] for the 0-based index k, in ms
abs_timeline(k) == global_t_min + k * DTms

Abs(x) == IF x < 0 THEN - x ELSE x

\* int(np.argmin(np.abs(abs_timeline - race_start_time_absolute))): the
\* first index among those of least distance
ArgMin(n, start_time) ==
    CHOOSE k \in 0 .. n - 1 :
        /\ \A j \in 0 .. n - 1 :
               Abs(abs_timeline(k) - start_time) <= Abs(abs_timeline(j) - start_time)
        /\ \A j \in 0 .. k - 1 :
               Abs(abs_timeline(j) - start_time) > Abs(abs_timeline(k) - start_time)

\* the NaNs replaced by the value before them, or by 0 at the start
ForwardFill(d) ==
    LET F[j \in 1 .. Len(d)] ==
            IF d[j] # None THEN d[j][1]
            ELSE IF j > 1 THEN F[j - 1] ELSE 0
    IN  [ j \in 1 .. Len(d) |-> F[j] ]

Monotone_m(rp) == rp

\* every value raised to the value before it
Monotone(rp) ==
    LET F[j \in 1 .. Len(rp)] ==
            IF j > 1 /\ rp[j] < F[j - 1] THEN F[j - 1] ELSE rp[j]
    IN  [ j \in 1 .. Len(rp) |-> F[j] ]

\* rp - base, with the negative values set to 0
Normalised(rp, idx) ==
    LET base == IF 0 <= idx /\ idx < Len(rp) THEN rp[idx + 1] ELSE rp[1]
    IN  [ j \in 1 .. Len(rp) |->
            IF rp[j] - base < 0 THEN 0 ELSE rp[j] - base ]

\* the cumulative distances of the telemetry, in m
DistValues == {0, 10, 20}

\* the times of the telemetry and of the track status records, in ms
TimeGrid == { k * (DTms \div 2) : k \in 0 .. 2 * NFrames }

\* f1_data.py:722 and the resampling of the telemetry onto the timeline
MakeTimeline ==
    /\ prep_pc = "start"
    /\ timeline_len' = ArangeLen(global_t_min, global_t_max, DTms)
    /\ dist' \in [ 1 .. timeline_len' ->
                    {None} \cup { Some(v) : v \in DistValues } ]
    /\ prep_pc' = "timeline"
    /\ UNCHANGED << global_t_min, global_t_max, race_start_time_absolute,
                    race_start_idx, race_progress >>
    /\ UNCHANGED << sessVars, wsVars, frameVars, callVars, upstream,
                    computed >>

\* f1_data.py:896-936; the arrays of an empty timeline cannot be indexed
ComputeProgress ==
    /\ prep_pc = "timeline"
    /\ IF timeline_len = 0
       THEN /\ prep_pc' = "raised"
            /\ UNCHANGED << race_start_idx, race_progress >>
       ELSE /\ prep_pc' = "progress"
            /\ race_start_idx' =
                 IF race_start_time_absolute # None
                 THEN ArgMin(timeline_len, race_start_time_absolute[1])
                 ELSE 0
            /\ race_progress' =
                 Normalised(Monotone(ForwardFill(dist)), race_start_idx')
    /\ UNCHANGED << global_t_min, global_t_max, race_start_time_absolute,
                    dist, timeline_len >>
    /\ UNCHANGED << sessVars, wsVars, frameVars, callVars, upstream,
                    computed >>

\* the telemetry of the drivers spans [global_t_min, global_t_max]; the
\* first track status "1", if there is one, starts at
\* race_start_time_absolute
PrepInit ==
    /\ ServiceIdle
    /\ FrameIdle
    /\ CallIdle
    /\ prep_pc = "start"
    /\ global_t_min \in {0, DTms \div 2}
    /\ global_t_max \in { t \in TimeGrid : t >= global_t_min }
    /\ race_start_time_absolute \in {None} \cup { Some(t) : t \in TimeGrid }
    /\ dist = << >>
    /\ timeline_len = 0
    /\ race_start_idx = 0
    /\ race_progress = << >>

PrepNext == MakeTimeline \/ ComputeProgress

PrepSpec == PrepInit /\ [][PrepNext]_vars

----------------------------------------------------------------------------
(* Frame serialization: the caches of a session, called on their own       *)

\* replay_service.py:243-250 and :292-299  safe_float of a float: the
\* default 0.0 for NaN
safe_float(value) == IF isnan(value) THEN 0 ELSE value

\* replay_service.py:242-289  _build_frame_payload_json of the frame at the
\* 0-based index: json.dumps of the payload
build_frame_payload_json(frames, index) ==
    LET frame_ == frames[index + 1]
    IN  << "json",
           [ frame_index |-> index,
             t |-> safe_float(frame_.t),
             lap |-> frame_.lap,
             drivers |-> [ c \in DOMAIN frame_.drivers |->
                             [ speed |-> safe_float(frame_.drivers[c].speed),
                               position |-> frame_.drivers[c].position ] ] ] >>

\* replay_service.py:290-343  _build_frame_payload_msgpack: msgpack.packb of
\* the same payload
build_frame_payload_msgpack(frames, index) ==
    << "msgpack", build_frame_payload_json(frames, index)[2] >>

\* a pre-serialization that leaves the last frame out of the caches
pre_serialize_frames_m(self) ==
    LET frame_count == Len(self.frames)
    IN  IF frame_count = 0 \/ frame_count > PreSerializeLimit
        THEN [self EXCEPT !.serialized_frames = None, !.msgpack_frames = None]
        ELSE [self EXCEPT
                !.serialized_frames =
                    Some([ i \in 1 .. frame_count - 1 |->
                             build_frame_payload_json(self.frames, i - 1) ]),
                !.msgpack_frames =
                    Some([ i \in 1 .. frame_count - 1 |->
                             build_frame_payload_msgpack(self.frames, i - 1) ])]

\* replay_service.py:213-240  _pre_serialize_frames
pre_serialize_frames(self) ==
    LET frame_count == Len(self.frames)
    IN  IF frame_count = 0
        THEN [self EXCEPT !.serialized_frames = Some(<< >>),
                          !.msgpack_frames = Some(<< >>)]
        ELSE IF frame_count > PreSerializeLimit
        THEN [self EXCEPT !.serialized_frames = None, !.msgpack_frames = None]
        ELSE [self EXCEPT
                !.serialized_frames =
                    Some([ i \in 1 .. frame_count |->
                             build_frame_payload_json(self.frames, i - 1) ]),
                !.msgpack_frames =
                    Some([ i \in 1 .. frame_count |->
                             build_frame_payload_msgpack(self.frames, i - 1) ])]

\* replay_service.py:356-368  serialize_frame_msgpack; an empty list is
\* false like None
serialize_frame_msgpack(self, index) ==
    IF self.frames = << >> \/ index < 0 \/ index >= Len(self.frames)
    THEN << "msgpack", [ error |-> "Invalid frame index" ] >>
    ELSE IF self.msgpack_frames # None /\ self.msgpack_frames[1] # << >>
    THEN self.msgpack_frames[1][index + 1]
    ELSE build_frame_payload_msgpack(self.frames, index)

\* the numbers of frames of a session: none, one, a few, the largest that is
\* pre-serialized and the smallest that is not
FrameCounts == {0, 1, NFrames, PreSerializeLimit, PreSerializeLimit + 1}

\* f1_data.py:1187-1195  the frames of a race, one every 1/FPS s, all in one
\* lap and with one speed (or NaN) for every driver
FramesOf(num_frames, lap, speed) ==
    [ i \in 1 .. num_frames |->
        [ t |-> (i - 1) * DTms, lap |-> lap,
          drivers |-> [ c \in Codes |-> [ speed |-> speed, position |-> c ] ] ] ]

\* replay_service.py:194  load_data is about to call _pre_serialize_frames
\* on a session that holds its frames
SerializeInit ==
    /\ ServiceIdle /\ PrepIdle /\ FrameIdle
    /\ \E num_frames \in FrameCounts, lap \in FrameLaps, speed \in {-1, 0, 90} :
         call = [ fn |-> "_pre_serialize_frames",
                  self |-> [ frames |-> FramesOf(num_frames, lap, speed),
                             serialized_frames |-> None,
                             msgpack_frames |-> None ],
                  frame_index |-> 0 ]
    /\ returned = << >>

\* replay_service.py:194  self._pre_serialize_frames()
PreSerializeStep ==
    /\ call # << >>
    /\ call.fn = "_pre_serialize_frames"
    /\ returned = << >>
    /\ call' = [call EXCEPT !.self = pre_serialize_frames(call.self)]
    /\ returned' = << "None" >>
    /\ UNCHANGED << sessVars, wsVars, frameVars, prepVars, upstream, computed >>

\* websocket.py:83  session.serialize_frame_msgpack(current_frame), and the
\* same call for an index that is no frame of the session
SerializeStep ==
    /\ call # << >>
    /\ call.fn \in {"_pre_serialize_frames", "serialize_frame_msgpack"}
    /\ returned # << >>
    /\ \E index \in {-1, 0, 1, Len(call.self.frames) - 1,
                     Len(call.self.frames)} :
         /\ call' = [ fn |-> "serialize_frame_msgpack", self |-> call.self,
                      frame_index |-> index ]
         /\ returned' = << serialize_frame_msgpack(call.self, index) >>
    /\ UNCHANGED << sessVars, wsVars, frameVars, prepVars, upstream, computed >>

SerializeNext == PreSerializeStep \/ SerializeStep

SerializeSpec == SerializeInit /\ [][SerializeNext]_vars

----------------------------------------------------------------------------
(* Progress callbacks: one emit_progress, with subscribers coming and going *)

Callbacks == 1 .. MaxCallbacks

\* the emit is suspended in the await of a callback (replay_service.py:83):
\* only then does other code of the event loop run
Suspended == call # << >> /\ returned = << >> /\ call.awaiting # None

\* replay_service.py:67-79  emit_progress is called with a state and with or
\* without a progress, on a session with any list of registered callbacks;
\* the fields are assigned and the for loop is about to start
EmitInit ==
    /\ ServiceIdle /\ PrepIdle /\ FrameIdle
    /\ \E S \in SUBSET Callbacks, progress \in {None, Some(60)} :
       \E callbacks \in Perms(S) :
         LET self == [ state |-> "loading", progress |-> 10,
                       progress_callbacks |-> callbacks ]
             effective_progress == IF progress = None THEN self.progress
                                   ELSE progress[1]
         IN  call = [ fn |-> "emit_progress",
                      self |-> emit_progress(self, "loading",
                                             effective_progress),
                      registered |-> callbacks,
                      effective_progress |-> effective_progress,
                      it |-> 0, awaiting |-> None, raised |-> { },
                      delivered |-> << >> ]
    /\ returned = << >>

\* replay_service.py:81-83  the for loop takes the next item of the list, if
\* its index is still inside the list, and awaits the callback
EmitCallback ==
    /\ call # << >> /\ returned = << >>
    /\ call.awaiting = None
    /\ call.it < Len(call.self.progress_callbacks)
    /\ LET callback == call.self.progress_callbacks[call.it + 1]
       IN  call' = [call EXCEPT
                      !.it = call.it + 1,
                      !.awaiting = Some(callback),
                      !.delivered =
                          Append(call.delivered,
                                 << callback, call.self.state,
                                    call.effective_progress >>)]
    /\ UNCHANGED returned
    /\ UNCHANGED << sessVars, wsVars, frameVars, prepVars, upstream, computed >>

\* replay_service.py:83-85  the awaited callback returns, or raises an
\* Exception that is logged
CallbackEnds ==
    /\ Suspended
    /\ \E raises \in BOOLEAN :
         call' = [call EXCEPT
                    !.awaiting = None,
                    !.raised = IF raises THEN call.raised \cup {call.awaiting[1]}
                               ELSE call.raised]
    /\ UNCHANGED returned
    /\ UNCHANGED << sessVars, wsVars, frameVars, prepVars, upstream, computed >>

\* replay_service.py:81  the for loop ends: the index has reached the end of
\* the list
EmitReturn ==
    /\ call # << >> /\ returned = << >>
    /\ call.awaiting = None
    /\ call.it >= Len(call.self.progress_callbacks)
    /\ returned' = << "None" >>
    /\ UNCHANGED call
    /\ UNCHANGED << sessVars, wsVars, frameVars, prepVars, upstream, computed >>

\* replay_service.py:58-60  register_progress_callback, called by the
\* awaited callback or by another task while the emit is suspended, for a
\* callback that is not registered
register_progress_callback(callback) ==
    /\ Suspended
    /\ ~ InSeq(callback, call.self.progress_callbacks)
    /\ call' = [call EXCEPT !.self.progress_callbacks =
                               Append(call.self.progress_callbacks, callback)]
    /\ UNCHANGED returned
    /\ UNCHANGED << sessVars, wsVars, frameVars, prepVars, upstream, computed >>

\* replay_service.py:62-65  unregister_progress_callback, called likewise,
\* for a callback that is registered
unregister_progress_callback(callback) ==
    /\ Suspended
    /\ InSeq(callback, call.self.progress_callbacks)
    /\ call' = [call EXCEPT !.self.progress_callbacks =
                  SelectSeq(call.self.progress_callbacks,
                            LAMBDA c : c # callback)]
    /\ UNCHANGED returned
    /\ UNCHANGED << sessVars, wsVars, frameVars, prepVars, upstream, computed >>

EmitNext ==
    \/ EmitCallback
    \/ CallbackEnds
    \/ EmitReturn
    \/ \E callback \in Callbacks : register_progress_callback(callback)
    \/ \E callback \in Callbacks : unregister_progress_callback(callback)

EmitSpec == EmitInit /\ [][EmitNext]_vars

----------------------------------------------------------------------------
(* Driver telemetry: the first stage of get_race_telemetry                 *)

\* np.all(t[:-1] <= t[1:])
monotonic(t) == \A k \in 1 .. Len(t) - 1 : t[k] <= t[k + 1]

RECURSIVE concatenate(_)
\* np.concatenate
concatenate(arrays) ==
    IF arrays = << >> THEN << >>
    ELSE Head(arrays) \o concatenate(Tail(arrays))

\* f1_data.py:44-228  _process_single_driver for a driver whose laps have
\* the SessionTime samples laps[k] (none for a lap without telemetry): None,
\* the result, or the AssertionError of a time that goes backwards; an
\* optimized interpreter (python -O) does not execute assert statements
process_single_driver(driver_code, laps, optimized) ==
    LET t_all == SelectSeq(laps, LAMBDA t_lap : t_lap # << >>)
        order == StableSort([ k \in 1 .. Len(t_all) |-> k ],
                            [ k \in 1 .. Len(t_all) |->
                                << t_all[k][1], 0, 0 >> ])
        t     == concatenate([ k \in 1 .. Len(t_all) |-> t_all[order[k]] ])
        bad   == { k \in 1 .. Len(t_all) : ~ monotonic(t_all[k]) }
    IN  IF t_all = << >>
        THEN [ exc |-> None, result |-> None ]
        ELSE IF ~ optimized /\ bad # { }
        THEN [ exc |-> Some("Non-monotonic lap time for " \o Str(driver_code)
                            \o " in lap "
                            \o Str((CHOOSE k \in bad :
                                      \A j \in bad : k <= j) - 1)),
               result |-> None ]
        ELSE IF ~ optimized /\ ~ monotonic(t)
        THEN [ exc |-> Some("Non-monotonic concatenated time for "
                            \o Str(driver_code)),
               result |-> None ]
        ELSE [ exc |-> None,
               result |-> Some([ code |-> driver_code, t |-> t ]) ]

\* f1_data.py:698-719  the results of the pool in the order they arrive: an
\* exception of a worker is raised again by the iteration, a None is
\* skipped, and without any result the ValueError is raised
process_drivers(telemetry, optimized) ==
    LET results == [ c \in DOMAIN telemetry |->
                       process_single_driver(c, telemetry[c], optimized) ]
        raising == { c \in DOMAIN telemetry : results[c].exc # None }
        valid   == { c \in DOMAIN telemetry : results[c].result # None }
    IN  IF raising # { }
        THEN { [ exc |-> results[c].exc, driver_data |-> << >> ] :
               c \in raising }
        ELSE IF valid = { }
        THEN { [ exc |-> Some(NoValidMsg), driver_data |-> << >> ] }
        ELSE { [ exc |-> None,
                 driver_data |-> [ c \in valid |-> results[c].result[1].t ] ] }

\* what FastF1 may hold for one driver: no lap, a lap without telemetry, laps
\* in order, laps out of order, a lap whose time goes backwards, and laps
\* that overlap
DriverLaps ==
    { << >>, << << >> >>, << << 0, 1 >> >>, << << 0, 1 >>, << 1, 2 >> >>,
      << << 1, 2 >>, << 0, 1 >> >>, << << 1, 0 >> >>,
      << << 0, 2 >>, << 1, 3 >> >> }

\* get_race_telemetry has missed the cache and is about to process the
\* drivers of the session
DriverInit ==
    /\ ServiceIdle /\ PrepIdle /\ FrameIdle
    /\ \E telemetry \in [ Codes -> DriverLaps ], optimized \in BOOLEAN :
         call = [ fn |-> "get_race_telemetry", telemetry |-> telemetry,
                  optimized |-> optimized ]
    /\ returned = << >>

\* f1_data.py:686-719  the drivers are processed: get_race_telemetry goes on
\* with the data of the drivers that have any, or raises
DriverStep ==
    /\ call # << >>
    /\ call.fn = "get_race_telemetry"
    /\ returned = << >>
    /\ \E r \in process_drivers(call.telemetry, call.optimized) :
         returned' = << r >>
    /\ UNCHANGED << sessVars, wsVars, frameVars, prepVars, call, upstream,
                    computed >>

DriverSpec == DriverInit /\ [][DriverStep]_vars

----------------------------------------------------------------------------
(* Qualifying telemetry: the driver stage of get_quali_telemetry           *)

QualiSegments == << "Q1", "Q2", "Q3" >>

\* what FastF1 may hold for a driver in a segment: a fastest lap with
\* telemetry, no lap, laps of which none is the fastest, a fastest lap
\* whose telemetry is empty
LapKinds == {"lap", "no_laps", "no_fastest", "empty_telemetry"}

\* f1_data.py:1260-1504  get_driver_quali_telemetry: the ValueError of a
\* driver without a lap (:1281-1282, :1289-1290), the dict of the guard for
\* empty telemetry (:1295-1296), or the dict of the lap
get_driver_quali_telemetry(driver_code, quali_segment, kind) ==
    IF kind = "no_laps"
    THEN [ exc |-> Some("No laps found for driver '" \o Str(driver_code)
                        \o "' in " \o quali_segment),
           value |-> None ]
    ELSE IF kind = "no_fastest"
    THEN [ exc |-> Some("No valid laps for driver '" \o Str(driver_code)
                        \o "' in " \o quali_segment),
           value |-> None ]
    ELSE IF kind = "empty_telemetry"
    THEN [ exc |-> None,
           value |-> Some([ frames |-> << >>, track_statuses |-> << >> ]) ]
    ELSE [ exc |-> None,
           value |-> Some([ frames |-> << [ t |-> 0 ], [ t |-> 80 ] >>,
                            track_statuses |-> << >>, drs_zones |-> << >>,
                            max_speed |-> 300, min_speed |-> 60 ]) ]

\* f1_data.py:1507-1539  _process_quali_driver: a ValueError of a segment is
\* replaced by an empty frame list, segment_telemetry["max_speed"] raises
\* KeyError for a dict that has no such key
process_quali_driver(driver_code, kinds) ==
    LET got == [ k \in 1 .. 3 |->
                   get_driver_quali_telemetry(driver_code, QualiSegments[k],
                                              kinds[QualiSegments[k]]) ]
        keyless == { k \in 1 .. 3 :
                       got[k].exc = None
                         /\ ~ InDict(got[k].value[1], "max_speed") }
        laps == { k \in 1 .. 3 : got[k].exc = None }
    IN  IF keyless # { }
        THEN [ exc |-> Some("'max_speed'"), result |-> None ]
        ELSE [ exc |-> None,
               result |->
                 Some([ driver_code |-> driver_code,
                        driver_telemetry_data |->
                          [ seg \in {"Q1", "Q2", "Q3"} |->
                              LET k == CHOOSE j \in 1 .. 3 :
                                         QualiSegments[j] = seg
                              IN  IF got[k].exc = None THEN got[k].value[1]
                                  ELSE [ frames |-> << >>,
                                         track_statuses |-> << >> ] ],
                        max_speed |-> IF laps = { } THEN 0 ELSE 300,
                        min_speed |-> IF laps = { } THEN 0 ELSE 60 ]) ]

\* f1_data.py:1583-1591  the results of the pool: an exception of a worker
\* is raised again by the iteration, else raw_telemetry holds every driver
process_quali_drivers(telemetry) ==
    LET results == [ c \in DOMAIN telemetry |->
                       process_quali_driver(c, telemetry[c]) ]
        raising == { c \in DOMAIN telemetry : results[c].exc # None }
    IN  IF raising # { }
        THEN { [ exc |-> results[c].exc, raw_telemetry |-> << >> ] :
               c \in raising }
        ELSE { [ exc |-> None,
                 raw_telemetry |->
                   [ c \in DOMAIN telemetry |->
                       results[c].result[1].driver_telemetry_data ] ] }

\* get_quali_telemetry has missed the cache and is about to process the
\* drivers of the session
QualiInit ==
    /\ ServiceIdle /\ PrepIdle /\ FrameIdle
    /\ \E telemetry \in [ Codes -> [ {"Q1", "Q2", "Q3"} -> LapKinds ] ] :
         call = [ fn |-> "get_quali_telemetry", telemetry |-> telemetry ]
    /\ returned = << >>

\* f1_data.py:1565-1591  the drivers are processed
QualiStep ==
    /\ call # << >>
    /\ call.fn = "get_quali_telemetry"
    /\ returned = << >>
    /\ \E r \in process_quali_drivers(call.telemetry) : returned' = << r >>
    /\ UNCHANGED << sessVars, wsVars, frameVars, prepVars, call, upstream,
                    computed >>

QualiSpec == QualiInit /\ [][QualiStep]_vars

----------------------------------------------------------------------------
(* Playback in floating point: a client that plays and then is silent      *)

\* The playhead of the handler is a binary floating-point number.  Here it
\* has Precision significant bits instead of 53 and is kept as a count of
\* quanta of 2^-QuantumBits frame, so that the rounding of the addition at
\* websocket.py:79 happens within a few frames.
Quantum == 2 ^ QuantumBits

\* the exponent of the non-negative value v: the number of low bits that a
\* significand of Precision bits cannot hold
RECURSIVE Exponent(_)
Exponent(v) == IF v < 2 ^ Precision THEN 0 ELSE 1 + Exponent(v \div 2)

\* the floating-point number nearest to v, ties to the even significand
Rounded(v) ==
    LET ulp == 2 ^ Exponent(v)
        m   == v \div ulp
        lo  == m * ulp
        hi  == lo + ulp
    IN  IF 2 * (v - lo) < ulp THEN lo
        ELSE IF 2 * (v - lo) > ulp THEN hi
        ELSE IF m % 2 = 0 THEN lo ELSE hi

\* the floating-point numbers from 0 to v
FloatsUpTo(v) == { x \in 0 .. v : Rounded(x) = x }

\* websocket.py:44-47, :54-63  the locals of the handler when a play with a
\* positive speed has been received: the playhead is 0.0 or where a seek has
\* put it, the frame under the playhead has been sent by the tick before or
\* not yet; advance is playback_speed * (1.0 / 60.0) * 25, taken positive
\* (the product underflows to 0.0 for the smallest positive speeds)
PlaybackInit ==
    /\ ServiceIdle /\ PrepIdle /\ FrameIdle
    /\ \E num_frames \in 1 .. PlaybackFrames :
       \E fi \in FloatsUpTo(num_frames * Quantum - 1),
          advance \in FloatsUpTo(2 * Quantum) \ {0},
          sent_before \in BOOLEAN :
         call = [ fn |-> "playback",
                  num_frames |-> num_frames,
                  frame_index |-> fi,
                  advance |-> advance,
                  is_playing |-> TRUE,
                  last_frame_sent |-> IF sent_before THEN fi \div Quantum
                                      ELSE -1 ]
    /\ returned = << >>

\* websocket.py:52, :65-66, :77-91  one pass of the loop in which no message
\* arrives and the send succeeds
PlaybackTick ==
    /\ call # << >> /\ returned = << >>
    /\ LET moved == IF call.is_playing
                    THEN Rounded(call.frame_index + call.advance)
                    ELSE call.frame_index
           current_frame == moved \div Quantum
           at_end == moved >= call.num_frames * Quantum
       IN  call' = [call EXCEPT
                      !.frame_index = IF at_end
                                      THEN (call.num_frames - 1) * Quantum
                                      ELSE moved,
                      !.is_playing = IF at_end THEN FALSE ELSE @,
                      !.last_frame_sent =
                          IF ShouldSend(current_frame, call.last_frame_sent,
                                        call.num_frames)
                          THEN current_frame ELSE @]
    /\ UNCHANGED returned
    /\ UNCHANGED << sessVars, wsVars, frameVars, prepVars, upstream, computed >>

PlaybackSpec == PlaybackInit /\ [][PlaybackTick]_vars

\* the loop never stops passing: each pass ends in asyncio.sleep(1 / 60)
FairPlaybackSpec ==
    PlaybackInit /\ [][PlaybackTick]_vars /\ WF_vars(PlaybackTick)

----------------------------------------------------------------------------
(* Stream contract                                                         *)

\* the tick of this step sent frame i
Sends(i) == ws_pc = "tick" /\ ws_sent' = Some(i)

\* the frame count of the session the client streams
N == NumFrames(sessions[ws_session])

\* C1 (as stated): within a PLAYING interval without seek every frame sent
\* has a larger index than the frame sent before it in that interval,
\* whatever the speed
C1_StrictlyIncreasingAnySpeed ==
    [][ \A i \in 0 .. N :
          (Sends(i) /\ is_playing /\ run_last # -1) => i > run_last ]_vars

\* C1 (amended): within a PLAYING interval without seek in which every speed
\* in effect is non-negative, every frame sent has a larger index than the
\* frame sent before it in that interval
C1_StrictlyIncreasing ==
    [][ \A i \in 0 .. N :
          (Sends(i) /\ is_playing /\ run_nonneg /\ run_last # -1)
              => i > run_last ]_vars

\* a second frame has been sent in a PLAYING interval of non-negative speed
C1_Witness ==
    /\ ws_pc = "recv"
    /\ is_playing
    /\ run_nonneg
    /\ ws_sent # None
    /\ run_last = ws_sent[1]
    /\ run_last >= 2
    /\ playback_speed = 1

\* C2 (as stated): the first frame sent after a seek to f, 0 <= f < N, has
\* index floor(f)
C2_SeekLandsOnFloor ==
    [][ \A i \in 0 .. N :
          (Sends(i) /\ seek_pending # None
             /\ 0 <= seek_pending[1] /\ seek_pending[1] < N * Scale)
              => i = seek_pending[1] \div Scale ]_vars

\* the playhead, in 1/Scale frames, that the tick after a seek to f emits
\* from: f when PAUSED, f + 25 s / 60 when PLAYING at speed s
SeekTarget(f) ==
    IF is_playing
    THEN (f * TickHz + playback_speed * FPS * Scale) \div TickHz
    ELSE f

\* C2 (amended): the tick of the iteration that processed a seek to f,
\* 0 <= f < N, sends frame floor(f) when the client is PAUSED and frame
\* floor(f + 25 s / 60) when it is PLAYING at speed s and that playhead is
\* in [0, N) (unless the send fails and the loop ends)
C2_SeekLandsOnPlayhead ==
    [][ \A f \in SeekTargets :
          ( /\ ws_pc = "tick"
            /\ ws_pc' = "recv"
            /\ ws_recv = << "seek", f >>
            /\ 0 <= f /\ f < N * Scale
            /\ 0 <= SeekTarget(f) /\ SeekTarget(f) < N * Scale )
              => ws_sent' = Some(SeekTarget(f) \div Scale) ]_vars

\* a seek to 1 + 7/12 while PLAYING at speed 1 was answered with frame 2
C2_Witness ==
    /\ ws_pc = "recv"
    /\ ws_recv = << "seek", Scale + 7 >>
    /\ is_playing
    /\ playback_speed = 1
    /\ ws_sent = Some(2)

\* the playhead is a frame index that has been emitted
Emitted ==
    /\ frame_index >= 0
    /\ last_frame_sent = frame_index \div Scale

----------------------------------------------------------------------------
(* Connection and load errors                                              *)

\* the handler returned before the streaming loop
Rejected == ws_pc \in {"ret_unknown", "ret_timeout"}

\* C5: a client whose session_id is unknown, or whose session is still not
\* loaded when the wait times out, has been sent exactly one error message
\* and no frame, and the handler has returned for good
C5_RejectedClient ==
    /\ [] ( Rejected =>
              /\ ~ws_got_frame
              /\ ws_pc = "ret_unknown" => ws_errors = << "Session not found" >>
              /\ ws_pc = "ret_timeout" => ws_errors = << "Session load timeout" >> )
    /\ [][ /\ \A sid \in SessionIds :
                (ws_pc = "idle" /\ ws_pc' # "idle"
                   /\ sid \notin DOMAIN active_sessions
                   /\ WsConnect(sid)) => ws_pc' = "ret_unknown"
           /\ ( /\ ws_pc = "wait"
                /\ ~sessions[ws_session].is_loaded
                /\ ws_elapsed > LoadTimeoutPolls
                /\ ws_errors' # ws_errors ) => ws_pc' = "ret_timeout"
           /\ Rejected => UNCHANGED << ws_pc, ws_errors, ws_got_frame >> ]_vars

\* the wait for a session that was still loading has timed out
C5_Witness ==
    /\ ws_pc = "ret_timeout"
    /\ ws_elapsed > LoadTimeoutPolls
    /\ ~sessions[ws_session].is_loaded
    /\ ws_errors = << "Session load timeout" >>

\* C6: a load that ends in ERROR has stored the exception message, and a
\* client of that session that got past the wait has been sent that message
\* as its only message, no frame, and the handler has returned
C6_LoadErrorSurfaced ==
    /\ \A o \in Objs :
         (sessions[o].is_loaded /\ sessions[o].state = "error")
             => sessions[o].load_error # None
    /\ ( /\ ws_pc \notin {"idle", "ret_unknown", "wait", "ret_timeout"}
         /\ sessions[ws_session].state = "error" )
           => /\ ws_pc = "ret_error"
              /\ ws_errors = << sessions[ws_session].load_error[1] >>
              /\ ~ws_got_frame

----------------------------------------------------------------------------
(* Session lifecycle and control plane                                     *)

\* C7: the state of a session object only moves init -> loading,
\* loading -> ready or loading -> error, and a new object starts in init
C7_Lifecycle ==
    [][ /\ \A o \in Objs :
             sessions'[o].state # sessions[o].state
                 => << sessions[o].state, sessions'[o].state >>
                        \in { << "init", "loading" >>,
                              << "loading", "ready" >>,
                              << "loading", "error" >> }
        /\ \A o \in 1 .. Len(sessions') :
             o \notin Objs => sessions'[o].state = "init" ]_vars

\* a load has ended in READY after the emits its thread scheduled have run,
\* and another load has ended in ERROR
C7_Witness ==
    \E o \in Objs :
        /\ sessions[o].state = "ready"
        /\ sessions[o].is_loaded
        /\ loader[o].pc = "done"
        /\ scheduled[o] = << >>
        /\ \E p \in Objs : sessions[p].state = "error"

\* C8: create_session without refresh for an id that has an entry leaves
\* the map, the session objects and the load tasks as they are
C8_ExistingEntryReturned ==
    [][ \A y \in Years, r \in Rounds, k \in Kinds :
          ( /\ SessionId(y, r, k) \in DOMAIN active_sessions
            /\ create_session(y, r, k, FALSE) )
              => UNCHANGED << active_sessions, sessions, loader >> ]_vars

\* C9: create_session without refresh for an id whose entry has finished
\* loading in READY answers with that id and with the metadata of the
\* loaded session, and starts no load
C9_CacheReuse ==
    [][ \A y \in Years, r \in Rounds, k \in Kinds :
          LET sid == SessionId(y, r, k)
          IN  ( /\ sid \in DOMAIN active_sessions
                /\ sessions[active_sessions[sid]].is_loaded
                /\ sessions[active_sessions[sid]].state = "ready"
                /\ create_session(y, r, k, FALSE) )
                  => LET first == sessions[active_sessions[sid]]
                     IN  /\ UNCHANGED << active_sessions, sessions, loader,
                                         scheduled >>
                         /\ response'.status = 200
                         /\ response'.session_id = Some(sid)
                         /\ response'.metadata = Some(get_metadata(first))
                         /\ response'.metadata[1].total_frames
                              = NumFrames(first)
                         /\ response'.metadata[1].error = None ]_vars

\* a second request was answered from the loaded session
C9_Witness ==
    /\ Len(sessions) = 1
    /\ sessions[1].state = "ready"
    /\ response.status = 200
    /\ response.loading = None
    /\ response.metadata # None
    /\ response.metadata[1].total_frames = NFrames

\* C10: a race load without cache artifact for which the upstream adapter
\* returned no drivers ends in ERROR with the message "No valid telemetry
\* data found for any driver"
C10_NoDriversMessage ==
    [][ \A o \in Objs :
          ( /\ loader[o].pc = "fetched"
            /\ loader'[o].pc # "fetched"
            /\ sessions[o].session_type = "R"
            /\ ~loader[o].cache_hit
            /\ loader[o].drivers = Some(0) )
              => /\ sessions'[o].state = "error"
                 /\ sessions'[o].load_error = Some(NoValidMsg) ]_vars

----------------------------------------------------------------------------
(* Frame contract                                                          *)

\* the drivers the frame shows as running
ActiveIn(f) == { c \in Codes : f[c].status = "Finished" }

\* C11: in every frame the ranks of the drivers are exactly 1 .. D, the
\* running drivers hold the ranks 1 .. |active| and the retired drivers the
\* ranks |active| + 1 .. D
C11_RanksPartition ==
    frame # << >> =>
        /\ { frame[c].position : c \in Codes } = 1 .. MaxDrivers
        /\ \A c \in Codes :
              frame[c].status = "Retired"
                  <=> frame[c].position > Cardinality(ActiveIn(frame))

\* a frame with a retired driver behind a running driver that a lap anchor
\* placed
C11_Witness ==
    /\ fr_i > ZeroFramesToRetire
    /\ \E c \in Codes : frame[c].status = "Retired"
    /\ \E c \in Codes :
          /\ frame[c].status = "Finished"
          /\ lap_boundaries[c][frame[c].lap] # None

\* C12: a driver whose status is Retired in a frame has status Retired in
\* every later frame, whatever its speed becomes
C12_RetiredStays ==
    [][ \A c \in Codes :
          (frame # << >> /\ frame[c].status = "Retired")
              => frame'[c].status = "Retired" ]_vars

\* a retired driver whose speed is positive again
C12_Witness ==
    /\ frame # << >>
    /\ \E c \in Codes : frame[c].status = "Retired" /\ frame[c].speed > 0

\* the frames of a zero-speed run of RETIREMENT_THRESHOLD seconds
RetirementFrames == 10 * FPS

\* C13: a driver is retired from the frame in which its run of zero speed
\* reaches 10 s, that is 250 frames, and then ranks behind the running
\* drivers; a driver that is not retired has no such run behind it
C13_RetiredAtThreshold ==
    frame # << >> =>
        \A c \in Codes :
            driver_zero_speed_time[c] >= RetirementFrames
                => /\ frame[c].status = "Retired"
                   /\ frame[c].position > Cardinality(ActiveIn(frame))

\* C14: no driver changes rank twice within the hysteresis threshold of the
\* frame of the second change: 1.0 s under green or yellow, 0.3 s under
\* track status 4, 6 or 7
C14_RankChangeSpacing ==
    [][ \A c \in Codes :
          ( /\ frame # << >>
            /\ frame'[c].position # frame[c].position
            /\ rank_changed_at[c] >= 0 )
              => t_abs(fr_i) - rank_changed_at[c] >= get_threshold(track_status')
      ]_vars

\* C15: under track status 4, while the candidate order of two drivers
\* alternates from frame to frame, the frames of every window of 0.25 s
\* carry one single rank order
C15_FlickerSuppressed ==
    alt_steady >= alt_run

\* the driver a frame ranks at p
DriverAt(f, p) == CHOOSE c \in Codes : f[c].position = p

\* C16: in every frame the driver of rank 1 has both gaps 0, every gap is
\* non-negative, and a gap is 0 when the speed of the driver is not positive
\* or its distance deficit to the driver it is measured against is not
\* positive
C16_Gaps ==
    frame # << >> =>
        \A c \in Codes :
            LET d == frame[c]
                ahead == frame[DriverAt(frame, IF d.position > 1
                                               THEN d.position - 1 ELSE 1)]
                leader == frame[DriverAt(frame, 1)]
            IN  /\ d.gap_to_previous >= 0 /\ d.gap_to_leader >= 0
                /\ d.position = 1
                     => d.gap_to_previous = 0 /\ d.gap_to_leader = 0
                /\ d.speed <= 0
                     => d.gap_to_previous = 0 /\ d.gap_to_leader = 0
                /\ ahead.race_progress - d.race_progress <= 0
                     => d.gap_to_previous = 0
                /\ leader.race_progress - d.race_progress <= 0
                     => d.gap_to_leader = 0

\* a moving driver ranked behind a leader that has covered less distance
C16_Witness ==
    /\ frame # << >>
    /\ \E c \in Codes :
          /\ frame[c].position > 1
          /\ frame[c].speed > 0
          /\ frame[DriverAt(frame, 1)].race_progress < frame[c].race_progress
          /\ frame[c].gap_to_leader = 0

----------------------------------------------------------------------------
(* Timeline contract                                                       *)

\* C17: race_progress is 0 at the race-start frame and at every frame
\* before it and never decreases with the frame index; the race-start frame
\* is the grid index nearest to the start of the first track status "1",
\* and frame 0 when there is none
C17_RaceProgress ==
    prep_pc = "progress" =>
        /\ \A j \in 1 .. race_start_idx + 1 : race_progress[j] = 0
        /\ \A j \in 2 .. Len(race_progress) :
               race_progress[j] >= race_progress[j - 1]
        /\ race_start_time_absolute = None => race_start_idx = 0
        /\ race_start_time_absolute # None =>
               \A j \in 0 .. timeline_len - 1 :
                   Abs(abs_timeline(race_start_idx) - race_start_time_absolute[1])
                       <= Abs(abs_timeline(j) - race_start_time_absolute[1])

\* a race that starts after frame 0, with a regression in the distances and
\* progress after the start
C17_Witness ==
    /\ prep_pc = "progress"
    /\ race_start_idx > 0
    /\ \E j \in 2 .. Len(dist) :
          dist[j] # None /\ dist[j - 1] # None /\ dist[j][1] < dist[j - 1][1]
    /\ race_progress[Len(race_progress)] > 0

\* C18: the number of frames of the timeline is floor((t_max - t_min) / dt),
\* also where the span is not a multiple of dt
C18_FrameCount ==
    prep_pc # "start" => timeline_len = (global_t_max - global_t_min) \div DTms

----------------------------------------------------------------------------
(* Cache contract                                                          *)

RaceFile(o) ==
    CacheFile(sessions[o].year, sessions[o].round_num, sessions[o].session_type)

C20_CorruptTreatedAbsent ==
    \A o \in Objs :
        sessions[o].load_error
            \notin { Some("Ran out of input"), Some("pickle data was truncated") }

----------------------------------------------------------------------------
(* Order contract                                                          *)

\* C21: the key of a driver is (p, i, -r): p is pos_raw when it is there
\* and > 0 and 9999 otherwise, i is interval_smooth when it is there and 9999
\* otherwise, r is race_progress with NaN counted as 0 (and (9999, 9999, 0)
\* for a driver the frame does not hold); the sorted list is a permutation
\* of the drivers in which a driver comes before another only if its p is
\* smaller, or the p are equal and its i is smaller, or both are equal and
\* its r is not smaller
C21_SortKey ==
    returned # << >> /\ call.fn = "sorted" =>
        LET raw == call.frame_data_raw
            Has(c) == c \in DOMAIN raw
            p(c) == IF Has(c) /\ raw[c].pos_raw \notin {None, Some(0)}
                    THEN raw[c].pos_raw[1] ELSE 9999
            i(c) == IF Has(c) /\ raw[c].interval_smooth # None
                    THEN raw[c].interval_smooth[1] ELSE 9999
            r(c) == IF Has(c) /\ raw[c].race_progress # -1
                    THEN raw[c].race_progress ELSE 0
            order == returned[1].sorted_codes
        IN  /\ \A c \in Codes : returned[1].key[c] = << p(c), i(c), 0 - r(c) >>
            /\ Len(order) = Len(driver_codes)
            /\ \A c \in Codes : InSeq(c, order)
            /\ \A j, k \in 1 .. Len(order) :
                  j < k =>
                    LET a == order[j]
                        b == order[k]
                    IN  \/ p(a) < p(b)
                        \/ p(a) = p(b) /\ i(a) < i(b)
                        \/ p(a) = p(b) /\ i(a) = i(b) /\ r(a) >= r(b)

\* the sort has put a driver of stream position 0 behind one with a rank,
\* and a driver with NaN progress behind one of equal position and interval
C21_Witness ==
    /\ returned # << >>
    /\ call.fn = "sorted"
    /\ DOMAIN call.frame_data_raw = Codes
    /\ call.frame_data_raw[1].pos_raw = Some(0)
    /\ call.frame_data_raw[2].pos_raw = Some(MaxDrivers)
    /\ call.frame_data_raw[2].race_progress = -1
    /\ IndexOf(returned[1].sorted_codes, 2) < IndexOf(returned[1].sorted_codes, 1)

\* the smoother refuses the new index of driver c of the candidate order:
\* c had another index in the previous order p and its last accepted change
\* is younger than the threshold
RefusedIn(p, c) ==
    /\ p # << >>
    /\ InSeq(c, call'.sorted_codes)
    /\ InSeq(c, p)
    /\ IndexOf(p, c) # IndexOf(call'.sorted_codes, c)
    /\ call'.current_time - last_change_time[c]
          < get_threshold(call'.track_status)

\* C22: when the candidate order has the drivers of the previous order, a
\* driver whose change was refused has, in the order the smoother returns,
\* the index it had in the previous order, and the other drivers follow one
\* another as they do in the candidate order
C22_RefusedKeepRank ==
    [][ ( /\ call = << >> /\ call' # << >> /\ call'.fn = "apply"
          /\ \A c \in Codes :
                InSeq(c, previous_order) <=> InSeq(c, call'.sorted_codes) ) =>
          /\ \A c \in Codes :
                RefusedIn(previous_order, c) =>
                    IndexOf(returned'[1], c) = IndexOf(previous_order, c)
          /\ \A a, b \in Codes :
                ( /\ InSeq(a, call'.sorted_codes)
                  /\ InSeq(b, call'.sorted_codes)
                  /\ ~ RefusedIn(previous_order, a)
                  /\ ~ RefusedIn(previous_order, b)
                  /\ IndexOf(call'.sorted_codes, a)
                       < IndexOf(call'.sorted_codes, b) )
                  => IndexOf(returned'[1], a) < IndexOf(returned'[1], b) ]_vars

\* C23: the order the smoother returns holds every driver of the candidate
\* order once and no other driver, whatever the previous order was
C23_SmootherPermutes ==
    returned # << >> /\ call.fn = "apply" =>
        /\ Len(returned[1]) = Len(call.sorted_codes)
        /\ \A c \in Codes :
              InSeq(c, returned[1]) <=> InSeq(c, call.sorted_codes)
        /\ \A j, k \in 1 .. Len(returned[1]) :
              j # k => returned[1][j] # returned[1][k]

\* the smoother returned another order than the candidate order
C23_Witness ==
    /\ returned # << >>
    /\ call.fn = "apply"
    /\ returned[1] # call.sorted_codes

\* C24: in every frame an active driver whose lap has an official position
\* in lap_boundaries has that position as its rank
C24_AnchoredAtOfficial ==
    frame # << >> =>
        \A c \in Codes :
            ( /\ frame[c].status = "Finished"
              /\ lap_boundaries[c][frame[c].lap] # None )
              => frame[c].position = lap_boundaries[c][frame[c].lap][1]

\* C25: a frame in which no driver changes lap, built while all drivers are
\* active from a position stream that ranks them as the smoother last did,
\* ranks every driver as the position stream does
C25_StreamBetweenBoundaries ==
    [][ ( /\ frame # << >>
          /\ Len(previous_order) = MaxDrivers
          /\ \A c \in Codes : ~ driver_retired'[c]
          /\ \A c \in Codes : frame'[c].lap = frame[c].lap
          /\ FrameStep(RawOf(previous_order,
                              [ c \in Codes |-> frame[c].lap ],
                              [ c \in Codes |-> frame'[c].speed ],
                              [ c \in Codes |-> 0 ]), "1") )
          => \A c \in Codes :
                 frame'[c].position = IndexOf(previous_order, c) + 1 ]_vars

\* C26: in the frame in which a driver retires, every driver that retired
\* in an earlier frame ranks ahead of it
C26_RetirementOrder ==
    [][ \A a, b \in Codes :
          ( /\ frame # << >>
            /\ frame[a].status = "Retired"
            /\ frame[b].status = "Finished"
            /\ frame'[b].status = "Retired" )
            => frame'[a].position < frame'[b].position ]_vars

----------------------------------------------------------------------------
(* Command contract                                                        *)

\* C27: a seek to f sets the playhead to f (0 without a frame) and
\* last_frame_sent to -1 and leaves is_playing and the speed alone; a play
\* sets is_playing and the speed (1 without a speed) and a pause clears
\* is_playing and leaves the speed alone, both leaving the playhead and
\* last_frame_sent alone
C27_CommandEffects ==
    [][ \A data \in Messages :
          OnMessage(data) =>
            CASE get(data, "action", "") = "seek" ->
                   /\ frame_index' = IF "frame" \in DOMAIN data
                                     THEN data.frame ELSE 0
                   /\ last_frame_sent' = -1
                   /\ UNCHANGED << is_playing, playback_speed >>
              [] get(data, "action", "") = "play" ->
                   /\ is_playing'
                   /\ playback_speed' = IF "speed" \in DOMAIN data
                                        THEN data.speed ELSE 1
                   /\ UNCHANGED << frame_index, last_frame_sent >>
              [] get(data, "action", "") = "pause" ->
                   /\ ~ is_playing'
                   /\ UNCHANGED << frame_index, last_frame_sent,
                                   playback_speed >>
              [] OTHER -> TRUE ]_vars

\* a seek beyond frame 1 was received while playing at speed 3, after a
\* frame had been sent
C27_Witness ==
    /\ ws_pc = "tick"
    /\ ws_recv = << "seek", Scale + 7 >>
    /\ ws_got_frame
    /\ is_playing
    /\ playback_speed = 3
    /\ last_frame_sent = -1

\* C28: a message with an action that is no command changes neither the
\* playhead nor the speed, is_playing or last_frame_sent and is followed by
\* the tick of the iteration, and a message that cannot be read as a
\* command closes the connection
C28_UnknownIgnoredMalformedCloses ==
    [][ /\ RecvUnknown => (UNCHANGED loopVars /\ ws_pc' = "tick")
        /\ RecvError => ws_pc' = "closed" ]_vars

\* C29: the loop has ended after a failed send only if the failure was a
\* disconnect of the client
C29_RetryableSendContinues ==
    (ws_pc = "closed" /\ send_error # None) => send_error = Some("disconnect")

\* C30: a tick that completes leaves the playhead below the number of
\* frames, and when its advanced playhead has reached or passed the number
\* of frames it stops the playing and sets the playhead to the last frame
C30_TickEndsBelowN ==
    [][ (ws_pc = "tick" /\ ws_pc' = "recv") =>
          LET fi == IF is_playing
                    THEN frame_index + Advance(playback_speed)
                    ELSE frame_index
          IN  /\ frame_index' < N * Scale
              /\ fi >= N * Scale =>
                    (~ is_playing' /\ frame_index' = (N - 1) * Scale) ]_vars

\* the same, and no tick of a playing client starts from a playhead at or
\* beyond the number of frames
C30_NeverAdvancesFromEnd ==
    [][ /\ (ws_pc = "tick" /\ ws_pc' = "recv") =>
             LET fi == IF is_playing
                       THEN frame_index + Advance(playback_speed)
                       ELSE frame_index
             IN  /\ frame_index' < N * Scale
                 /\ fi >= N * Scale =>
                       (~ is_playing' /\ frame_index' = (N - 1) * Scale)
        /\ (ws_pc = "tick" /\ ws_pc' # "tick" /\ is_playing) =>
             frame_index < N * Scale ]_vars

\* a client that played through the last frame of a session of NFrames
\* frames has been stopped by the tick with the playhead on the last frame
C30_Witness ==
    /\ ws_pc = "recv"
    /\ N = NFrames
    /\ ~ is_playing
    /\ frame_index = (N - 1) * Scale
    /\ last_frame_sent = N - 1
    /\ run_last = N - 1

----------------------------------------------------------------------------
(* Playhead and caches                                                     *)

\* C31: in the streaming loop the playhead is never negative
C31_PlayheadNonNegative ==
    ws_pc \in {"recv", "tick"} => frame_index >= 0

\* C32: once _pre_serialize_frames has run, a session of 1 to 50000 frames
\* holds a text cache and a binary cache with one entry per frame, a
\* session of more frames holds neither, and serialize_frame_msgpack
\* returns for an index of a frame what serializing that frame gives
C32_CachesAndBytes ==
    (call # << >> /\ returned # << >>
       /\ call.fn \in {"_pre_serialize_frames", "serialize_frame_msgpack"}) =>
      LET self == call.self
          n    == Len(self.frames)
      IN  /\ (1 <= n /\ n <= PreSerializeLimit) =>
                /\ self.serialized_frames # None
                /\ self.msgpack_frames # None
                /\ DOMAIN self.serialized_frames[1] = 1 .. n
                /\ DOMAIN self.msgpack_frames[1] = 1 .. n
          /\ n > PreSerializeLimit =>
                /\ self.serialized_frames = None
                /\ self.msgpack_frames = None
          /\ (call.fn = "serialize_frame_msgpack"
                /\ 0 <= call.frame_index /\ call.frame_index < n) =>
                returned[1] =
                    build_frame_payload_msgpack(self.frames, call.frame_index)

\* the last frame of a session with the largest number of frames that is
\* pre-serialized was requested and came from the cache
C32_Witness ==
    /\ call # << >>
    /\ call.fn = "serialize_frame_msgpack"
    /\ Len(call.self.frames) = PreSerializeLimit
    /\ call.frame_index = PreSerializeLimit - 1
    /\ call.self.msgpack_frames # None
    /\ returned = << call.self.msgpack_frames[1][PreSerializeLimit] >>

----------------------------------------------------------------------------
(* Progress and lifecycle                                                  *)

\* C33: when emit_progress returns, every callback that was registered when
\* it was called and is still registered has been called with the state and
\* the progress of the emit, whatever the callbacks raised and whichever
\* callbacks were registered or unregistered meanwhile
C33_EveryCallbackCalled ==
    (call # << >> /\ call.fn = "emit_progress" /\ returned # << >>) =>
      \A callback \in Callbacks :
        (InSeq(callback, call.registered)
           /\ InSeq(callback, call.self.progress_callbacks)) =>
          InSeq(<< callback, call.self.state, call.effective_progress >>,
                call.delivered)

\* C34: a step that changes a field of a session object is a step of the
\* load_data task of that object, and no field of an object whose state is
\* READY changes
C34_LoaderTaskOnly ==
    [][ \A o \in Objs :
          /\ sessions'[o] # sessions[o] =>
               \/ LoadStart(o)
               \/ LoadSession(o)
               \/ LoadAfterFetch(o)
               \/ LoadGeometry(o)
               \/ LoadFinish(o)
          /\ sessions[o].state = "ready" => sessions'[o] = sessions[o] ]_vars

\* C35: when the time of exactly one driver goes backwards and every other
\* driver has telemetry in order, the drivers are processed without an
\* exception and the data holds exactly the other drivers
C35_OnlyThatDriverSkipped ==
    (call # << >> /\ call.fn = "get_race_telemetry" /\ returned # << >>) =>
      \A c \in Codes :
        ( /\ process_single_driver(c, call.telemetry[c], FALSE).exc # None
          /\ \A d \in Codes \ {c} :
               call.telemetry[d] \in { << << 0, 1 >> >>,
                                       << << 0, 1 >>, << 1, 2 >> >> } ) =>
          /\ returned[1].exc = None
          /\ DOMAIN returned[1].driver_data = Codes \ {c}

\* C36: the qualifying drivers are processed without an exception whatever
\* fails for a driver in a segment; that driver has an empty frame list in
\* that segment, and a driver with a lap and telemetry in a segment has the
\* frames of the lap
C36_FailureStaysInSegment ==
    (call # << >> /\ call.fn = "get_quali_telemetry" /\ returned # << >>) =>
      /\ returned[1].exc = None
      /\ \A c \in Codes, seg \in {"Q1", "Q2", "Q3"} :
           IF call.telemetry[c][seg] = "lap"
           THEN returned[1].raw_telemetry[c][seg].frames # << >>
           ELSE returned[1].raw_telemetry[c][seg].frames = << >>

\* C37: a client has been sent a frame only if its session has finished
\* loading and the load did not fail
C37_FramesOnlyFromLoaded ==
    ws_got_frame =>
      /\ sessions[ws_session].is_loaded
      /\ sessions[ws_session].state # "error"
      /\ sessions[ws_session].load_error = None

\* the playback has stopped at the end: not playing, the playhead on the
\* last frame, and the last frame is the one sent last
Ended ==
    /\ ~ is_playing
    /\ frame_index = (N - 1) * Scale
    /\ last_frame_sent = N - 1

\* in exact arithmetic, with an advance of whole twelfths of a frame, a
\* client that is playing at a positive speed reaches the end, unless a
\* further message of the client is received or the connection ends
ExactPlaybackEnds ==
    (ws_pc = "recv" /\ is_playing /\ playback_speed > 0 /\ N > 0)
      ~> \/ Ended
         \/ ws_pc = "closed"
         \/ ws_pc = "tick" /\ ws_recv # << "timeout" >>

\* C38: after a play with a positive speed on a session with N > 0 frames,
\* with no further command and the connection open, the playback
\* eventually stops: not playing, the playhead at N-1, and frame N-1 the
\* frame sent last
C38_PlaybackEnds ==
    <>( /\ ~ call.is_playing
        /\ call.frame_index = (call.num_frames - 1) * Quantum
        /\ call.last_frame_sent = call.num_frames - 1 )

-----------------------------------------------------------------------------
(* The paused client                                                       *)

\* the locals of a handler that has processed neither a play nor a seek
\* since it entered the loop: paused at 0.0 with the default speed, and
\* frame 0 is the frame sent last once a frame has been sent
Untouched ==
    /\ ~ is_playing
    /\ frame_index = 0
    /\ playback_speed = 1
    /\ seek_pending = None
    /\ last_frame_sent = (IF ws_got_frame THEN 0 ELSE -1)

\* C39: on a session with N > 0 frames the handler enters the loop paused
\* and its first tick sends frame 0 without any command; as long as it has
\* processed neither a play nor a seek it stays as it was, and every later
\* tick sends nothing
C39_PausedSendsFrameZeroOnce ==
    /\ Untouched /\ ~ ws_got_frame
    /\ [][ /\ ( ws_pc = "tick" /\ Untouched /\ N > 0 /\ ws_pc' = "recv" )
              => /\ Untouched'
                 /\ ws_sent' = (IF ws_got_frame THEN None ELSE Some(0))
           /\ ( ws_pc = "recv" /\ Untouched /\ ws_pc' # "closed"
                /\ ws_recv'[1] \notin {"play", "seek"} )
              => Untouched' ]_vars

\* frame 0 has been sent and a later tick of the paused, silent client has
\* sent nothing
C39_Witness ==
    /\ N > 0
    /\ Untouched
    /\ ws_got_frame
    /\ ws_pc = "recv"
    /\ ws_recv = << "timeout" >>
    /\ ws_sent = None

-----------------------------------------------------------------------------
(* Session invariants                                                      *)

\* C40: of every session object, is_loaded implies that the state is READY
\* or ERROR, load_error is set exactly when the state is ERROR, the
\* progress of a READY session is 100 and that of an ERROR session is 0
C40_SessionInvariant ==
    \A o \in Objs :
        LET s == sessions[o]
        IN  /\ s.is_loaded => s.state \in {"ready", "error"}
            /\ s.load_error # None <=> s.state = "error"
            /\ s.state = "ready" => s.progress = 100
            /\ s.state = "error" => s.progress = 0

\* one load has ended in READY at 100 and another, which had progressed
\* beyond 0, in ERROR with an empty message
C40_Witness ==
    \E o, p \in Objs :
        /\ sessions[o].is_loaded
        /\ sessions[o].state = "ready"
        /\ sessions[o].progress = 100
        /\ sessions[o].load_error = None
        /\ sessions[p].is_loaded
        /\ sessions[p].state = "error"
        /\ sessions[p].progress = 0
        /\ sessions[p].load_error = Some("")

====
